---- MODULE Spec2Model ----
(***************************************************************************)
(* Tal Chess: the dual chess clock (src/js/timer.js, class TimerManager).  *)
(*                                                                         *)
(* Remaining times are counted in tenths of a second, the amount one tick  *)
(* subtracts (timer.js:155 "-= 0.1"), so a preset of 180 s is 1800 units.  *)
(* In JavaScript the subtraction is on doubles: the time after n ticks may *)
(* differ from the exact tenth by a rounding error, so that a side expires *)
(* on the tick the exact count gives or on the next one; the clamp to 0    *)
(* and the "<= 0" test are the same.                                       *)
(* The JavaScript value Infinity is the absorbing element of + and -.      *)
(* Every method of TimerManager is an operator from a clock record to the  *)
(* clock record after the call; the actions apply them to the variables.   *)
(*                                                                         *)
(* Second part: the move selection of the engine (src/unnamed/part_002,    *)
(* class TalEngine), its opening book (src/unnamed/part_000) and the       *)
(* difficulty profiles and style terms (src/js/difficulty.js).  A string   *)
(* the code takes apart (a square, a UCI move, the en-passant field of a   *)
(* FEN) is a sequence of one-character strings; a FEN is the sequence of   *)
(* its space-separated fields.  Scores are counted in tenths of a point,   *)
(* rates in hundredths, so that every product the code forms is an integer.*)
(*                                                                         *)
(* Third part: the page (src/unnamed/part_001) that owns the game, calls   *)
(* the clock and awaits the engine.  Its handlers are atomic; the moves of *)
(* the game are what the rules of chess, an oracle here, accept.           *)
(***************************************************************************)
EXTENDS Integers, Sequences, FiniteSets, TLC

\* ------------------------------------------------------------------ bounds
\* single tick() calls explored since the last init()
MaxTicks == 2
\* switchTimer() calls explored since the last init()
MaxSwitch == 2
\* timeout callbacks recorded since the last init()
MaxTimeouts == 2
\* units the active side has left after a quiet stretch
Low == 1
\* ticks of the blitz scenario: 301 simulated seconds at 100 ms per tick
ScenarioTicks == 3010

\* --------------------------------------------------------------- constants
\* ticks per second: setInterval(..., 100) and "-= 0.1"
UnitsPerSecond == 10
\* what one tick subtracts, in units
TickStep == 1
\* JavaScript's Infinity (TIME_CONTROLS.unlimited.time)
Infinity == 1000000
\* JavaScript's null
NULL == "null"
\* the handle setInterval returns (truthy)
HANDLE == "interval"

Sides == {"player", "opponent"}

Sec(s) == s * UnitsPerSecond

TIME_CONTROLS ==
    [ bullet    |-> [time |-> Sec(180), increment |-> Sec(0)],
      blitz     |-> [time |-> Sec(300), increment |-> Sec(0)],
      rapid     |-> [time |-> Sec(600), increment |-> Sec(0)],
      classical |-> [time |-> Sec(900), increment |-> Sec(10)],
      unlimited |-> [time |-> Infinity, increment |-> Sec(0)] ]

\* the keys init() is called with: the five presets and a name that is none
Keys == DOMAIN TIME_CONTROLS \cup {"bogus"}

\* x + d and x - d on JavaScript numbers, Infinity absorbing
Plus(x, d) == IF x = Infinity THEN Infinity ELSE x + d
Minus(x, d) == IF x = Infinity THEN Infinity ELSE x - d

VARIABLES
    playerTime, opponentTime, increment, activeTimer, intervalId, isPaused,
    onTimeoutCallback, currentTimeControl,
    scheduled,      \* number of intervals the host has scheduled and not cleared
    timeoutCalls,   \* arguments of the timeout callback's calls since the last init()
    initialized,    \* init() has been called since construction
    nTicks,         \* single tick() calls since the last init()
    nSwitch,        \* switchTimer() calls since the last init()
    difficulty,     \* TalEngine.difficulty: a profile of DIFFICULTY_LEVELS
    isThinking,     \* TalEngine.isThinking
    request,        \* the getBestMove() call in flight: its arguments and locals
    pc,             \* where that call stands
    result,         \* what the last finished getBestMove() returned
    obs,            \* what the last getBestMove() call has done so far
    app             \* the page: its globals, its timers and the calls it awaits

engineVars == << difficulty, isThinking, request, pc, result, obs >>

vars == << playerTime, opponentTime, increment, activeTimer, intervalId, isPaused,
           onTimeoutCallback, currentTimeControl, scheduled, timeoutCalls,
           initialized, nTicks, nSwitch >>

\* what only init() and reset() change
counters == << initialized, nTicks, nSwitch >>

\* the clock as one record
TM ==
    [ playerTime |-> playerTime, opponentTime |-> opponentTime,
      increment |-> increment, activeTimer |-> activeTimer,
      intervalId |-> intervalId, isPaused |-> isPaused,
      onTimeoutCallback |-> onTimeoutCallback,
      currentTimeControl |-> currentTimeControl,
      scheduled |-> scheduled, timeoutCalls |-> timeoutCalls ]

Clock(t) ==
    /\ playerTime' = t.playerTime
    /\ opponentTime' = t.opponentTime
    /\ increment' = t.increment
    /\ activeTimer' = t.activeTimer
    /\ intervalId' = t.intervalId
    /\ isPaused' = t.isPaused
    /\ onTimeoutCallback' = t.onTimeoutCallback
    /\ currentTimeControl' = t.currentTimeControl
    /\ scheduled' = t.scheduled
    /\ timeoutCalls' = t.timeoutCalls

\* a call on the clock from outside the page
Set(t) ==
    /\ Clock(t)
    /\ UNCHANGED engineVars
    /\ UNCHANGED app

\* nothing observed of a getBestMove() call
\* (the path taken, the calls of evaluateMove(), the draws of
\* shouldMakeMistake(), the thinking delays elapsed, the place of the matched
\* book entry, the profile the continuation has read, the probe copies made
\* with new Chess(game.fen()))
NoObs == [ path |-> NULL, evaluated |-> 0, mistakeDraws |-> 0, delays |-> 0,
          entry |-> 0, profile |-> [ none |-> TRUE ], probes |-> 0 ]

\* --------------------------------------------------------- difficulty.js
\* talStyleIntensity in tenths, mistakeRate in hundredths, sacrificeThreshold
\* in tenths of a pawn, thinkTime in milliseconds
DIFFICULTY_LEVELS ==
    [ beginner     |-> [ name |-> "Beginner", thinkTime |-> 500, talStyleIntensity |-> 2,
                         mistakeRate |-> 30, sacrificeThreshold |-> -50 ],
      intermediate |-> [ name |-> "Intermediate", thinkTime |-> 800, talStyleIntensity |-> 4,
                         mistakeRate |-> 15, sacrificeThreshold |-> -30 ],
      advanced     |-> [ name |-> "Advanced", thinkTime |-> 1200, talStyleIntensity |-> 6,
                         mistakeRate |-> 5, sacrificeThreshold |-> -20 ],
      master       |-> [ name |-> "Master", thinkTime |-> 2000, talStyleIntensity |-> 8,
                         mistakeRate |-> 2, sacrificeThreshold |-> -15 ],
      legend       |-> [ name |-> "Legend", thinkTime |-> 3000, talStyleIntensity |-> 10,
                         mistakeRate |-> 0, sacrificeThreshold |-> -10 ] ]

\* the weights of the style terms, in points
TAL_STYLE_MODIFIERS ==
    [ sacrifice |-> 150, kingAttack |-> 100, check |-> 80, centerControl |-> 50,
      pieceActivity |-> 40, complexPosition |-> 60, defensiveMove |-> -30,
      simplification |-> -80, passivePiece |-> -50, openFiles |-> 30, kingUnsafe |-> 70 ]

\* the property names an object literal inherits from Object.prototype; their
\* values are functions, and for __proto__ the prototype: none is falsy
ObjectPrototype ==
    { "constructor", "toString", "toLocaleString", "valueOf", "hasOwnProperty",
      "isPrototypeOf", "propertyIsEnumerable", "__proto__" }

\* DIFFICULTY_LEVELS[level] || DIFFICULTY_LEVELS.intermediate: the lookup finds
\* an own property, else an inherited one, else undefined
getDifficulty(level) ==
    IF level \in DOMAIN DIFFICULTY_LEVELS THEN DIFFICULTY_LEVELS[level]
    ELSE IF level \in ObjectPrototype THEN [ inherited |-> level ]
    ELSE DIFFICULTY_LEVELS.intermediate

shouldMakeMistake_atMost(d, random) == random <= d.mistakeRate

\* Math.random() < difficulty.mistakeRate, with the value Math.random() returns
shouldMakeMistake(d, random) == random < d.mistakeRate

\* ------------------------------------------------------------ TimerManager
constructor ==
    [ playerTime |-> 0, opponentTime |-> 0, increment |-> 0,
      activeTimer |-> NULL, intervalId |-> NULL, isPaused |-> TRUE,
      onTimeoutCallback |-> NULL, currentTimeControl |-> "rapid",
      scheduled |-> 0, timeoutCalls |-> << >> ]

stopInterval(t) ==
    IF t.intervalId # NULL
    THEN [t EXCEPT !.scheduled = @ - 1, !.intervalId = NULL]
    ELSE t

\* this.intervalId = setInterval(() => this.tick(), 100)
setInterval(t) == [t EXCEPT !.scheduled = @ + 1, !.intervalId = HANDLE]

\* TIME_CONTROLS[timeControlKey] || TIME_CONTROLS.rapid
Control(timeControlKey) ==
    IF timeControlKey \in DOMAIN TIME_CONTROLS
    THEN TIME_CONTROLS[timeControlKey]
    ELSE TIME_CONTROLS.rapid

\* init() that leaves the paused flag as it is
init_keepsPausedFlag(t, timeControlKey) ==
    LET control == Control(timeControlKey)
    IN stopInterval([t EXCEPT !.currentTimeControl = timeControlKey,
                              !.playerTime = control.time,
                              !.opponentTime = control.time,
                              !.increment = control.increment,
                              !.activeTimer = NULL])

init(t, timeControlKey) ==
    LET control == Control(timeControlKey)
    IN stopInterval([t EXCEPT !.currentTimeControl = timeControlKey,
                              !.playerTime = control.time,
                              !.opponentTime = control.time,
                              !.increment = control.increment,
                              !.activeTimer = NULL,
                              !.isPaused = TRUE])

setTimeoutCallback(t, callback) == [t EXCEPT !.onTimeoutCallback = callback]

\* start() that schedules its interval without clearing the one before
start_keepsInterval(t, side) ==
    IF t.currentTimeControl = "unlimited"
    THEN t
    ELSE setInterval([t EXCEPT !.activeTimer = side, !.isPaused = FALSE])

start(t, side) ==
    IF t.currentTimeControl = "unlimited"
    THEN t
    ELSE setInterval(stopInterval([t EXCEPT !.activeTimer = side,
                                            !.isPaused = FALSE]))

\* pause() that flips the paused flag
pause_toggles(t) == stopInterval([t EXCEPT !.isPaused = ~@])

pause(t) == stopInterval([t EXCEPT !.isPaused = TRUE])

\* resume() that clears the paused flag and schedules no interval
resume_noInterval(t) ==
    IF t.activeTimer # NULL /\ t.currentTimeControl # "unlimited"
    THEN stopInterval([t EXCEPT !.isPaused = FALSE])
    ELSE t

\* resume() that restarts the player's clock
resume_startsPlayer(t) ==
    IF t.activeTimer # NULL /\ t.currentTimeControl # "unlimited"
    THEN setInterval(stopInterval([t EXCEPT !.isPaused = FALSE,
                                            !.activeTimer = "player"]))
    ELSE t

\* resume() without the test for an active side
resume_anySide(t) ==
    IF t.currentTimeControl # "unlimited"
    THEN setInterval(stopInterval([t EXCEPT !.isPaused = FALSE]))
    ELSE t

resume(t) ==
    IF t.activeTimer # NULL /\ t.currentTimeControl # "unlimited"
    THEN setInterval(stopInterval([t EXCEPT !.isPaused = FALSE]))
    ELSE t

\* switchTimer() without the early return under the unlimited preset
switchTimer_noUnlimitedReturn(t) ==
    LET added ==
            IF t.activeTimer = "player"
            THEN [t EXCEPT !.playerTime = Plus(@, t.increment)]
            ELSE IF t.activeTimer = "opponent"
                 THEN [t EXCEPT !.opponentTime = Plus(@, t.increment)]
                 ELSE t
    IN [added EXCEPT !.activeTimer =
            IF t.activeTimer = "player" THEN "opponent" ELSE "player"]

\* switchTimer() that gives the increment to the side about to move
switchTimer_incrementToOther(t) ==
    IF t.currentTimeControl = "unlimited"
    THEN t
    ELSE LET added ==
                 IF t.activeTimer = "player"
                 THEN [t EXCEPT !.opponentTime = Plus(@, t.increment)]
                 ELSE IF t.activeTimer = "opponent"
                      THEN [t EXCEPT !.playerTime = Plus(@, t.increment)]
                      ELSE t
         IN [added EXCEPT !.activeTimer =
                 IF t.activeTimer = "player" THEN "opponent" ELSE "player"]

switchTimer(t) ==
    IF t.currentTimeControl = "unlimited"
    THEN t
    ELSE LET added ==
                 IF t.activeTimer = "player"
                 THEN [t EXCEPT !.playerTime = Plus(@, t.increment)]
                 ELSE IF t.activeTimer = "opponent"
                      THEN [t EXCEPT !.opponentTime = Plus(@, t.increment)]
                      ELSE t
         IN [added EXCEPT !.activeTimer =
                 IF t.activeTimer = "player" THEN "opponent" ELSE "player"]

\* handleTimeout() that calls the callback and leaves the clock running
handleTimeout_keepsRunning(t, loser) ==
    IF t.onTimeoutCallback # NULL
    THEN [t EXCEPT !.timeoutCalls = Append(@, loser)]
    ELSE t

handleTimeout(t, loser) ==
    LET stopped == [stopInterval(t) EXCEPT !.isPaused = TRUE]
    IN IF stopped.onTimeoutCallback # NULL
       THEN [stopped EXCEPT !.timeoutCalls = Append(@, loser)]
       ELSE stopped

\* tick() that does not clamp the expired side's time to 0
tick_noClamp(t) ==
    IF t.isPaused \/ t.activeTimer = NULL
    THEN t
    ELSE IF t.activeTimer = "player"
         THEN LET left == Minus(t.playerTime, TickStep)
              IN IF left <= 0
                 THEN handleTimeout([t EXCEPT !.playerTime = left], "player")
                 ELSE [t EXCEPT !.playerTime = left]
         ELSE LET left == Minus(t.opponentTime, TickStep)
              IN IF left <= 0
                 THEN handleTimeout([t EXCEPT !.opponentTime = left], "opponent")
                 ELSE [t EXCEPT !.opponentTime = left]

\* tick() that decrements the opponent's time whichever side is active
tick_alwaysOpponent(t) ==
    IF t.isPaused \/ t.activeTimer = NULL
    THEN t
    ELSE LET left == Minus(t.opponentTime, TickStep)
         IN IF left <= 0
            THEN handleTimeout([t EXCEPT !.opponentTime = 0], "opponent")
            ELSE [t EXCEPT !.opponentTime = left]

tick(t) ==
    IF t.isPaused \/ t.activeTimer = NULL
    THEN t
    ELSE IF t.activeTimer = "player"
         THEN LET left == Minus(t.playerTime, TickStep)
              IN IF left <= 0
                 THEN handleTimeout([t EXCEPT !.playerTime = 0], "player")
                 ELSE [t EXCEPT !.playerTime = left]
         ELSE LET left == Minus(t.opponentTime, TickStep)
              IN IF left <= 0
                 THEN handleTimeout([t EXCEPT !.opponentTime = 0], "opponent")
                 ELSE [t EXCEPT !.opponentTime = left]

\* reset() that goes back to the default preset
reset_toRapid(t) == init(stopInterval(t), "rapid")

reset(t) == init(stopInterval(t), t.currentTimeControl)

getTime(t, side) == IF side = "player" THEN t.playerTime ELSE t.opponentTime

\* n consecutive firings of the interval callback: tick applied n times
RECURSIVE ticks(_, _)
ticks(t, n) ==
    IF n = 0 THEN t
    ELSE IF n = 1 THEN tick(t)
    ELSE LET half == n \div 2
             mid == ticks(t, half)
         IN IF mid.isPaused THEN mid ELSE ticks(mid, n - half)

\* ----------------------------------------------------------------- actions
\* let game = null
NoGame == [ none |-> TRUE ]

\* the globals as the script leaves them
Loaded ==
    [ phase |-> "load", playerColor |-> "white", currentDifficulty |-> "intermediate",
      currentTimeControl |-> "rapid", gameStarted |-> FALSE, game |-> NoGame,
      moveHistory |-> << >>, capturedByTal |-> << >>, capturedByPlayer |-> << >>,
      isGameOver |-> FALSE, modal |-> FALSE, dragging |-> FALSE, timers |-> 0,
      calls |-> [ fresh |-> 0, w |-> 0, b |-> 0 ], applied |-> 0, trace |-> << >> ]

Init == /\ playerTime = constructor.playerTime
        /\ opponentTime = constructor.opponentTime
        /\ increment = constructor.increment
        /\ activeTimer = constructor.activeTimer
        /\ intervalId = constructor.intervalId
        /\ isPaused = constructor.isPaused
        /\ onTimeoutCallback = constructor.onTimeoutCallback
        /\ currentTimeControl = constructor.currentTimeControl
        /\ scheduled = constructor.scheduled
        /\ timeoutCalls = constructor.timeoutCalls
        /\ initialized = FALSE
        /\ nTicks = 0
        /\ nSwitch = 0
        /\ difficulty = DIFFICULTY_LEVELS.intermediate
        /\ isThinking = FALSE
        /\ request = [ none |-> TRUE ]
        /\ pc = "idle"
        /\ result = [ none |-> TRUE ]
        /\ obs = NoObs
        /\ app = Loaded

SetTimeoutCallback ==
    /\ onTimeoutCallback = NULL
    /\ Set(setTimeoutCallback(TM, "callback"))
    /\ UNCHANGED counters

\* init() starts a new count of ticks, switches and timeout calls
InitTimer ==
    \E key \in Keys :
        /\ Set([init(TM, key) EXCEPT !.timeoutCalls = << >>])
        /\ initialized' = TRUE
        /\ nTicks' = 0
        /\ nSwitch' = 0

Reset ==
    /\ Set([reset(TM) EXCEPT !.timeoutCalls = << >>])
    /\ initialized' = TRUE
    /\ nTicks' = 0
    /\ nSwitch' = 0

Start ==
    \E side \in Sides :
        /\ Set(start(TM, side))
        /\ UNCHANGED counters

Pause ==
    /\ Set(pause(TM))
    /\ UNCHANGED counters

Resume ==
    /\ Set(resume(TM))
    /\ UNCHANGED counters

SwitchTimer ==
    /\ nSwitch < MaxSwitch
    /\ Set(switchTimer(TM))
    /\ nSwitch' = nSwitch + 1
    /\ UNCHANGED << initialized, nTicks >>

\* one call of tick(), by the interval or by a caller
Tick ==
    /\ nTicks < MaxTicks
    /\ Len(timeoutCalls) < MaxTimeouts
    /\ Set(tick(TM))
    /\ nTicks' = nTicks + 1
    /\ UNCHANGED << initialized, nSwitch >>

\* a quiet stretch at the start of a game: with both clocks still at the
\* preset's time, the scheduled interval fires, with no other call in between,
\* until the active side has Low units left
RunDown ==
    /\ intervalId # NULL
    /\ playerTime = Control(currentTimeControl).time
    /\ opponentTime = Control(currentTimeControl).time
    /\ Set(ticks(TM, getTime(TM, activeTimer) - Low))
    /\ UNCHANGED counters

Next ==
    \/ SetTimeoutCallback
    \/ InitTimer
    \/ Reset
    \/ Start
    \/ Pause
    \/ Resume
    \/ SwitchTimer
    \/ Tick
    \/ RunDown

Spec == Init /\ [][Next]_vars

\* ------------------------------------------------- the blitz scenario
\* setTimeoutCallback(cb); init('blitz'); start('player'); then only ticks
ScnRegister ==
    /\ onTimeoutCallback = NULL
    /\ Set(setTimeoutCallback(TM, "callback"))
    /\ UNCHANGED counters

ScnInit ==
    /\ onTimeoutCallback # NULL
    /\ currentTimeControl # "blitz"
    /\ Set(init(TM, "blitz"))
    /\ initialized' = TRUE
    /\ UNCHANGED << nTicks, nSwitch >>

ScnStart ==
    /\ currentTimeControl = "blitz"
    /\ activeTimer = NULL
    /\ Set(start(TM, "player"))
    /\ UNCHANGED counters

ScnTick ==
    /\ currentTimeControl = "blitz"
    /\ activeTimer # NULL
    /\ nTicks < ScenarioTicks
    /\ Set(tick(TM))
    /\ nTicks' = nTicks + 1
    /\ UNCHANGED << initialized, nSwitch >>

NextBlitz ==
    \/ ScnRegister
    \/ ScnInit
    \/ ScnStart
    \/ ScnTick

SpecBlitz == Init /\ [][NextBlitz]_vars

\* ------------------------------------------------------------------ claims
Other(side) == IF side = "player" THEN "opponent" ELSE "player"

\* C1: on an initialized clock the timeout callback is called at most once
\* between two init()/reset() calls, whatever tick, pause, resume, switchTimer
\* and start calls are made.
C1_TimeoutOnce == initialized => Len(timeoutCalls) <= 1

\* C2: in the blitz scenario the timeout callback is never called twice, and
\* after the 301 seconds of ticks it has been called once, with 'player', the
\* player has 0 left and the opponent still has 300 seconds.
C2_BlitzScenario ==
    /\ Len(timeoutCalls) <= 1
    /\ nTicks = ScenarioTicks =>
          /\ timeoutCalls = << "player" >>
          /\ playerTime = 0
          /\ opponentTime = Sec(300)

C2_Witness ==
    /\ nTicks = ScenarioTicks
    /\ timeoutCalls = << "player" >>
    /\ isPaused

\* C3: both remaining times are >= 0 in every reachable state.
C3_TimeNonNegative == playerTime >= 0 /\ opponentTime >= 0

\* a tick that would take an expired side below zero was clamped
C3_Witness ==
    /\ initialized
    /\ Len(timeoutCalls) = 2
    /\ timeoutCalls[1] = timeoutCalls[2]
    /\ getTime(TM, timeoutCalls[2]) = 0

\* C4: a tick never increases a remaining time, decreases at most one of the
\* two, and only the active side's; when the clock is paused, has no active
\* side or runs under the unlimited preset it decreases neither.
C4_TickOneSide ==
    LET r == tick(TM)
    IN /\ r.playerTime <= playerTime
       /\ r.opponentTime <= opponentTime
       /\ ~(r.playerTime < playerTime /\ r.opponentTime < opponentTime)
       /\ r.playerTime < playerTime => activeTimer = "player"
       /\ r.opponentTime < opponentTime => activeTimer = "opponent"
       /\ (isPaused \/ activeTimer = NULL \/ currentTimeControl = "unlimited") =>
             /\ r.playerTime = playerTime
             /\ r.opponentTime = opponentTime

\* the opponent's clock has been ticking and the next tick decreases it alone
C4_Witness ==
    /\ initialized
    /\ nTicks >= 1
    /\ activeTimer = "opponent"
    /\ opponentTime < playerTime
    /\ tick(TM).opponentTime < opponentTime
    /\ tick(TM).playerTime = playerTime

\* C5: if no side is active the clock is paused.
C5_NoActiveSideIsPaused == activeTimer = NULL => isPaused

\* init('classical') has put the clock back to idle
C5_Witness ==
    /\ activeTimer = NULL
    /\ currentTimeControl = "classical"
    /\ isPaused
    /\ intervalId = NULL

\* C6: pause() twice in a row leaves the state pause() once leaves.
C6_PauseIdempotent == pause(pause(TM)) = pause(TM)

\* a clock that ran and is paused by pause(): a second pause() changes nothing
C6_Witness ==
    /\ currentTimeControl = "bullet"
    /\ activeTimer # NULL
    /\ isPaused
    /\ intervalId = NULL
    /\ getTime(TM, activeTimer) > 0
    /\ getTime(TM, activeTimer) < TIME_CONTROLS.bullet.time
    /\ pause(TM) = TM

\* C7: under the unlimited preset the clock is idle at the unlimited sentinel
\* and start, resume, switchTimer and tick leave every field unchanged; the
\* timeout callback is never called.
C7_UnlimitedFrame ==
    currentTimeControl = "unlimited" =>
        /\ playerTime = Infinity
        /\ opponentTime = Infinity
        /\ activeTimer = NULL
        /\ isPaused
        /\ intervalId = NULL
        /\ scheduled = 0
        /\ timeoutCalls = << >>
        /\ \A side \in Sides : start(TM, side) = TM
        /\ resume(TM) = TM
        /\ switchTimer(TM) = TM
        /\ tick(TM) = TM

\* switchTimer() and tick() have been called under the unlimited preset
C7_Witness ==
    /\ currentTimeControl = "unlimited"
    /\ nSwitch >= 1
    /\ nTicks >= 1

\* C8: under a finite preset with an active side S, switchTimer adds the
\* increment to S's time, leaves the other side's time and makes the other
\* side active.
C8_SwitchAddsIncrement ==
    (currentTimeControl # "unlimited" /\ activeTimer \in Sides) =>
        LET r == switchTimer(TM)
        IN /\ getTime(r, activeTimer) = getTime(TM, activeTimer) + increment
           /\ getTime(r, Other(activeTimer)) = getTime(TM, Other(activeTimer))
           /\ r.activeTimer = Other(activeTimer)
           /\ r.isPaused = isPaused

\* the player moved under classical: 10 seconds added, the opponent is active
C8_Witness ==
    /\ currentTimeControl = "classical"
    /\ nSwitch = 1
    /\ activeTimer = "opponent"
    /\ playerTime = Sec(900) + Sec(10)
    /\ opponentTime = Sec(900)

\* C9: a switchTimer() call made on an initialized clock while no side is
\* active changes neither the active side, nor a remaining time, nor the
\* paused flag.
C9_SwitchWithoutActiveSide ==
    [][ (initialized /\ activeTimer = NULL /\ nSwitch' = nSwitch + 1) =>
            /\ activeTimer' = NULL
            /\ playerTime' = playerTime
            /\ opponentTime' = opponentTime
            /\ isPaused' = isPaused ]_vars

\* C10: pause() followed by resume() changes neither remaining time nor the
\* active side, and a clock that was running is running again for the same
\* side, with one interval scheduled.
C10_PauseResumeFrame ==
    LET r == resume(pause(TM))
    IN /\ r.playerTime = playerTime
       /\ r.opponentTime = opponentTime
       /\ r.activeTimer = activeTimer
       /\ ~isPaused =>
             /\ r = TM
             /\ tick(r) = tick(TM)

\* a running clock that pause() stops and resume() restarts
C10_Witness ==
    /\ initialized
    /\ ~isPaused
    /\ activeTimer = "opponent"
    /\ nTicks >= 1
    /\ pause(TM).isPaused
    /\ pause(TM).intervalId = NULL
    /\ resume(pause(TM)) = TM

\* the clock r is idle under the preset selected by key
IsIdle(r, key) ==
    /\ r.playerTime = Control(key).time
    /\ r.opponentTime = Control(key).time
    /\ r.increment = Control(key).increment
    /\ r.activeTimer = NULL
    /\ r.isPaused
    /\ r.intervalId = NULL
    /\ r.scheduled = 0

\* C11: from every reachable clock state init(key) and reset() leave the clock
\* idle with both times and the increment of the preset, no active side,
\* paused and no interval scheduled; reset() uses the key of the most recent
\* init(), also after the clock has run, switched and ticked since.
C11_InitResetIdle ==
    /\ \A key \in Keys : IsIdle(init(TM, key), key)
    /\ IsIdle(reset(TM), currentTimeControl)
    /\ \A key \in Keys : \A side \in Sides :
          IsIdle(reset(switchTimer(tick(start(init(TM, key), side)))), key)

\* an expired clock that reset() takes back to idle
C11_Witness ==
    /\ initialized
    /\ currentTimeControl = "bullet"
    /\ timeoutCalls = << "player" >>
    /\ playerTime = 0
    /\ isPaused
    /\ reset(TM) # TM
    /\ IsIdle(reset(TM), "bullet")

\* C12 as stated: on a running clock the active side changes from one side to
\* the other only in a switchTimer() step.
C12_SideChangesOnlyBySwitch ==
    [][ ( /\ initialized
          /\ ~isPaused
          /\ activeTimer \in Sides
          /\ activeTimer' \in Sides
          /\ activeTimer' # activeTimer ) => nSwitch' = nSwitch + 1 ]_vars

\* C12 as amended: on a running clock pause(), resume() and tick() keep the
\* active side; switchTimer() makes the other side active and start(side)
\* makes the side it names active.
C12_SideChangesBySwitchOrStart ==
    (~isPaused /\ activeTimer \in Sides) =>
        /\ pause(TM).activeTimer = activeTimer
        /\ resume(TM).activeTimer = activeTimer
        /\ tick(TM).activeTimer = activeTimer
        /\ switchTimer(TM).activeTimer = Other(activeTimer)
        /\ \A side \in Sides : start(TM, side).activeTimer = side

\* the opponent's clock runs after a switch; start('player') would change it
C12_Witness ==
    /\ initialized
    /\ ~isPaused
    /\ nSwitch >= 1
    /\ activeTimer = "opponent"
    /\ resume(TM).activeTimer = "opponent"
    /\ start(TM, "player").activeTimer = "player"

\* ============================================================ the engine
\* ------------------------------------------------------- the opening book
\* The entries of TAL_OPENINGS.white as the object literal declares them, in
\* the order of the source: the position key, split at its spaces, and the
\* listed moves.
Declared_white ==
    << [ key |-> << "rnbqkbnr/pppppppp/8/8/8/8/PPPPPPPP/RNBQKBNR", "w", "KQkq", <<"-">> >>,
      moves |-> << <<"e","2","e","4">> >> ],
       [ key |-> << "rnbqkbnr/pp1ppppp/8/2p5/4P3/8/PPPP1PPP/RNBQKBNR", "w", "KQkq", <<"-">> >>,
      moves |-> << <<"g","1","f","3">> >> ],
       [ key |-> << "rnbqkbnr/pp2pppp/3p4/2p5/4P3/5N2/PPPP1PPP/RNBQKB1R", "w", "KQkq", <<"-">> >>,
      moves |-> << <<"d","2","d","4">> >> ],
       [ key |-> << "r1bqkbnr/pp1ppppp/2n5/2p5/4P3/5N2/PPPP1PPP/RNBQKB1R", "w", "KQkq", <<"-">> >>,
      moves |-> << <<"d","2","d","4">> >> ],
       [ key |-> << "rnbqkbnr/pp1p1ppp/4p3/2p5/4P3/5N2/PPPP1PPP/RNBQKB1R", "w", "KQkq", <<"-">> >>,
      moves |-> << <<"d","2","d","4">> >> ],
       [ key |-> << "rnbqkbnr/pp2pppp/3p4/8/3pP3/5N2/PPP2PPP/RNBQKB1R", "w", "KQkq", <<"-">> >>,
      moves |-> << <<"f","3","d","4">> >> ],
       [ key |-> << "rnbqkb1r/pp2pppp/3p1n2/8/3NP3/8/PPP2PPP/RNBQKB1R", "w", "KQkq", <<"-">> >>,
      moves |-> << <<"b","1","c","3">> >> ],
       [ key |-> << "rnbqkb1r/1p2pppp/p2p1n2/8/3NP3/2N5/PPP2PPP/R1BQKB1R", "w", "KQkq", <<"-">> >>,
      moves |-> << <<"c","1","g","5">>, <<"c","1","e","3">>, <<"f","2","f","3">> >> ],
       [ key |-> << "rnbqkb1r/pp2pp1p/3p1np1/8/3NP3/2N5/PPP2PPP/R1BQKB1R", "w", "KQkq", <<"-">> >>,
      moves |-> << <<"c","1","e","3">>, <<"f","2","f","3">> >> ],
       [ key |-> << "rnbqkb1r/pp3ppp/3ppn2/8/3NP3/2N5/PPP2PPP/R1BQKB1R", "w", "KQkq", <<"-">> >>,
      moves |-> << <<"g","2","g","4">>, <<"c","1","e","3">> >> ],
       [ key |-> << "rnbqkbnr/pppp1ppp/8/4p3/4P3/8/PPPP1PPP/RNBQKBNR", "w", "KQkq", <<"-">> >>,
      moves |-> << <<"g","1","f","3">>, <<"f","2","f","4">> >> ],
       [ key |-> << "rnbqkbnr/pppp1ppp/8/4p3/4PP2/8/PPPP2PP/RNBQKBNR", "b", "KQkq", <<"-">> >>,
      moves |-> << <<"e","5","f","4">> >> ],
       [ key |-> << "rnbqkbnr/pppp1ppp/8/8/4Pp2/8/PPPP2PP/RNBQKBNR", "w", "KQkq", <<"-">> >>,
      moves |-> << <<"g","1","f","3">> >> ],
       [ key |-> << "r1bqkbnr/pppp1ppp/2n5/4p3/4P3/5N2/PPPP1PPP/RNBQKB1R", "w", "KQkq", <<"-">> >>,
      moves |-> << <<"f","1","c","4">>, <<"d","2","d","4">> >> ],
       [ key |-> << "r1bqkbnr/pppp1ppp/2n5/4p3/2B1P3/5N2/PPPP1PPP/RNBQK2R", "b", "KQkq", <<"-">> >>,
      moves |-> << <<"f","1","c","5">>, <<"g","8","f","6">> >> ],
       [ key |-> << "r1bqkbnr/pppp1ppp/2n5/4p3/3PP3/5N2/PPP2PPP/RNBQKB1R", "b", "KQkq", <<"-">> >>,
      moves |-> << <<"e","5","d","4">> >> ],
       [ key |-> << "rnbqkbnr/pppp1ppp/4p3/8/4P3/8/PPPP1PPP/RNBQKBNR", "w", "KQkq", <<"-">> >>,
      moves |-> << <<"d","2","d","4">> >> ],
       [ key |-> << "rnbqkbnr/ppp2ppp/4p3/3p4/3PP3/8/PPP2PPP/RNBQKBNR", "w", "KQkq", <<"-">> >>,
      moves |-> << <<"b","1","c","3">>, <<"e","4","e","5">> >> ],
       [ key |-> << "rnbqkbnr/ppp2ppp/4p3/3pP3/3P4/8/PPP2PPP/RNBQKBNR", "b", "KQkq", <<"-">> >>,
      moves |-> << <<"c","7","c","5">> >> ],
       [ key |-> << "rnbqkbnr/ppp2ppp/4p3/3p4/3PP3/2N5/PPP2PPP/R1BQKBNR", "b", "KQkq", <<"-">> >>,
      moves |-> << <<"g","8","f","6">>, <<"d","5","e","4">> >> ],
       [ key |-> << "rnbqkbnr/pp1ppppp/2p5/8/4P3/8/PPPP1PPP/RNBQKBNR", "w", "KQkq", <<"-">> >>,
      moves |-> << <<"d","2","d","4">> >> ],
       [ key |-> << "rnbqkbnr/pp2pppp/2p5/3p4/3PP3/8/PPP2PPP/RNBQKBNR", "w", "KQkq", <<"-">> >>,
      moves |-> << <<"b","1","c","3">>, <<"e","4","e","5">> >> ],
       [ key |-> << "rnbqkbnr/pp2pppp/2p5/3pP3/3P4/8/PPP2PPP/RNBQKBNR", "b", "KQkq", <<"-">> >>,
      moves |-> << <<"c","8","f","5">> >> ],
       [ key |-> << "rnbqkbnr/ppp1pppp/3p4/8/4P3/8/PPPP1PPP/RNBQKBNR", "w", "KQkq", <<"-">> >>,
      moves |-> << <<"d","2","d","4">> >> ],
       [ key |-> << "rnbqkb1r/ppp1pppp/3p1n2/8/3PP3/8/PPP2PPP/RNBQKBNR", "w", "KQkq", <<"-">> >>,
      moves |-> << <<"b","1","c","3">> >> ],
       [ key |-> << "rnbqkb1r/ppp1pppp/3p1n2/8/3PP3/2N5/PPP2PPP/R1BQKBNR", "b", "KQkq", <<"-">> >>,
      moves |-> << <<"g","7","g","6">> >> ],
       [ key |-> << "rnbqkb1r/ppp1pp1p/3p1np1/8/3PP3/2N5/PPP2PPP/R1BQKBNR", "w", "KQkq", <<"-">> >>,
      moves |-> << <<"f","2","f","4">> >> ],
       [ key |-> << "rnbqkb1r/pppppppp/5n2/8/4P3/8/PPPP1PPP/RNBQKBNR", "w", "KQkq", <<"-">> >>,
      moves |-> << <<"e","4","e","5">> >> ],
       [ key |-> << "rnbqkb1r/pppppppp/8/3nP3/8/8/PPPP1PPP/RNBQKBNR", "w", "KQkq", <<"-">> >>,
      moves |-> << <<"d","2","d","4">> >> ] >>

\* The entries of TAL_OPENINGS.black as the object literal declares them; the
\* key of the 12th entry (part_000:165) is declared again by the 25th
\* (part_000:216).
Declared_black ==
    << [ key |-> << "rnbqkbnr/pppppppp/8/8/4P3/8/PPPP1PPP/RNBQKBNR", "b", "KQkq", <<"-">> >>,
      moves |-> << <<"c","7","c","5">> >> ],
       [ key |-> << "rnbqkbnr/pp1ppppp/8/2p5/4P3/5N2/PPPP1PPP/RNBQKB1R", "b", "KQkq", <<"-">> >>,
      moves |-> << <<"d","7","d","6">> >> ],
       [ key |-> << "rnbqkbnr/pp2pppp/3p4/2p5/3PP3/5N2/PPP2PPP/RNBQKB1R", "b", "KQkq", <<"-">> >>,
      moves |-> << <<"c","5","d","4">> >> ],
       [ key |-> << "rnbqkbnr/pp2pppp/3p4/8/3NP3/8/PPP2PPP/RNBQKB1R", "b", "KQkq", <<"-">> >>,
      moves |-> << <<"g","8","f","6">> >> ],
       [ key |-> << "rnbqkb1r/pp2pppp/3p1n2/8/3NP3/2N5/PPP2PPP/R1BQKB1R", "b", "KQkq", <<"-">> >>,
      moves |-> << <<"a","7","a","6">> >> ],
       [ key |-> << "rnbqkb1r/1p2pppp/p2p1n2/6B1/3NP3/2N5/PPP2PPP/R2QKB1R", "b", "KQkq", <<"-">> >>,
      moves |-> << <<"e","7","e","6">> >> ],
       [ key |-> << "rnbqkb1r/1p2pppp/p2p1n2/8/3NP3/2N1B3/PPP2PPP/R2QKB1R", "b", "KQkq", <<"-">> >>,
      moves |-> << <<"e","7","e","5">>, <<"e","7","e","6">>, <<"b","8","d","7">> >> ],
       [ key |-> << "rnbqkb1r/1p2pppp/p2p1n2/8/3NP3/2N5/PPP1BPPP/R1BQK2R", "b", "KQkq", <<"-">> >>,
      moves |-> << <<"e","7","e","5">> >> ],
       [ key |-> << "rnbqkb1r/1p2pppp/p2p1n2/8/3NP3/2N2P2/PPP3PP/R1BQKB1R", "b", "KQkq", <<"-">> >>,
      moves |-> << <<"e","7","e","5">>, <<"e","7","e","6">> >> ],
       [ key |-> << "rnbqkb1r/1p3ppp/p2ppn2/6B1/3NPP2/2N5/PPP3PP/R2QKB1R", "b", "KQkq", <<"-">> >>,
      moves |-> << <<"d","8","b","6">> >> ],
       [ key |-> << "rnbqkbnr/pppppppp/8/8/3P4/8/PPP1PPPP/RNBQKBNR", "b", "KQkq", <<"-">> >>,
      moves |-> << <<"g","8","f","6">> >> ],
       [ key |-> << "rnbqkb1r/pppppppp/5n2/8/2PP4/8/PP2PPPP/RNBQKBNR", "b", "KQkq", <<"-">> >>,
      moves |-> << <<"g","7","g","6">> >> ],
       [ key |-> << "rnbqkb1r/pppppp1p/5np1/8/2PP4/2N5/PP2PPPP/R1BQKBNR", "b", "KQkq", <<"-">> >>,
      moves |-> << <<"f","8","g","7">> >> ],
       [ key |-> << "rnbqkb1r/pppppp1p/5np1/8/2PPP3/2N5/PP3PPP/R1BQKBNR", "b", "KQkq", <<"-">> >>,
      moves |-> << <<"d","7","d","6">> >> ],
       [ key |-> << "rnbqk2r/ppp1ppbp/3p1np1/8/2PPP3/2N2N2/PP3PPP/R1BQKB1R", "b", "KQkq", <<"-">> >>,
      moves |-> << <<"e","8","g","8">> >> ],
       [ key |-> << "rnbq1rk1/ppp1ppbp/3p1np1/8/2PPP3/2N2N2/PP2BPPP/R1BQK2R", "b", "KQkq", <<"-">> >>,
      moves |-> << <<"e","7","e","5">> >> ],
       [ key |-> << "rnbqk2r/ppp1ppbp/3p1np1/8/2PPP3/2N2P2/PP4PP/R1BQKBNR", "b", "KQkq", <<"-">> >>,
      moves |-> << <<"e","8","g","8">> >> ],
       [ key |-> << "rnbq1rk1/ppp1ppbp/3p1np1/8/2PPP3/2N2P2/PP4PP/R1BQKBNR", "b", "KQkq", <<"-">> >>,
      moves |-> << <<"e","7","e","5">>, <<"c","7","c","5">> >> ],
       [ key |-> << "rnbqk2r/ppp1ppbp/3p1np1/8/2PPPP2/2N5/PP4PP/R1BQKBNR", "b", "KQkq", <<"-">> >>,
      moves |-> << <<"e","8","g","8">>, <<"c","7","c","5">> >> ],
       [ key |-> << "rnbq1rk1/ppp1ppbp/3p1np1/8/2PPP3/2N2P2/PP2N1PP/R1BQKB1R", "b", "KQkq", <<"-">> >>,
      moves |-> << <<"e","7","e","5">> >> ],
       [ key |-> << "rnbq1rk1/ppp2pbp/3p1np1/4p3/2PPP3/2N2N2/PP2BPPP/R1BQK2R", "b", "KQkq", <<"-">> >>,
      moves |-> << <<"b","8","c","6">>, <<"b","8","d","7">> >> ],
       [ key |-> << "rnbqkbnr/pppppppp/8/8/2P5/8/PP1PPPPP/RNBQKBNR", "b", "KQkq", <<"-">> >>,
      moves |-> << <<"e","7","e","5">>, <<"g","8","f","6">>, <<"c","7","c","5">> >> ],
       [ key |-> << "rnbqkbnr/pppp1ppp/8/4p3/2P5/2N5/PP1PPPPP/R1BQKBNR", "b", "KQkq", <<"-">> >>,
      moves |-> << <<"g","8","f","6">>, <<"b","8","c","6">> >> ],
       [ key |-> << "rnbqkbnr/pppppppp/8/8/8/5N2/PPPPPPPP/RNBQKB1R", "b", "KQkq", <<"-">> >>,
      moves |-> << <<"d","7","d","5">>, <<"g","8","f","6">> >> ],
       [ key |-> << "rnbqkb1r/pppppppp/5n2/8/2PP4/8/PP2PPPP/RNBQKBNR", "b", "KQkq", <<"-">> >>,
      moves |-> << <<"c","7","c","5">>, <<"g","7","g","6">> >> ],
       [ key |-> << "rnbqkb1r/pp1ppppp/5n2/2pP4/2P5/8/PP2PPPP/RNBQKBNR", "b", "KQkq", <<"-">> >>,
      moves |-> << <<"e","7","e","6">> >> ],
       [ key |-> << "rnbqkb1r/pp1p1ppp/4pn2/2pP4/8/2N5/PP2PPPP/R1BQKBNR", "b", "KQkq", <<"-">> >>,
      moves |-> << <<"d","7","d","6">> >> ],
       [ key |-> << "rnbqkb1r/pp3ppp/3ppn2/2pP4/4P3/2N5/PP3PPP/R1BQKBNR", "b", "KQkq", <<"-">> >>,
      moves |-> << <<"g","7","g","6">> >> ] >>

\* a missing object (JavaScript null) where the model holds records
NONE == [ none |-> TRUE ]
\* a missing field (JavaScript undefined)
UNDEFINED == "undefined"

\* Math.random(), in hundredths: the values around every rate and share the
\* code compares a draw with
Draws == {0, 2, 5, 15, 30, 50, 99}

\* list[Math.floor(random * list.length)]; the empty sequence stands for the
\* undefined an empty list gives
Pick(list, random) ==
    IF Len(list) = 0 THEN << >> ELSE list[((random * Len(list)) \div 100) + 1]

\* Object.entries() of an object literal: every key once, at the place of its
\* first declaration, with the value of its last declaration
RECURSIVE ObjectEntries(_, _)
ObjectEntries(declared, entries) ==
    IF declared = << >> THEN entries
    ELSE LET d == Head(declared)
             same == { i \in 1..Len(entries) : entries[i].key = d.key }
         IN ObjectEntries(Tail(declared),
                IF same = {} THEN Append(entries, d)
                ELSE [ i \in 1..Len(entries) |->
                          IF i \in same THEN d ELSE entries[i] ])

TAL_OPENINGS ==
    [ white |-> ObjectEntries(Declared_white, << >>),
      black |-> ObjectEntries(Declared_black, << >>) ]

\* the fields getOpeningBookMove() keeps of a position: slice(0, 4)
KeyFields == 4

\* str.split(' ').slice(0, 4) of a string given by its fields
Slice(fields) ==
    SubSeq(fields, 1, IF Len(fields) < KeyFields THEN Len(fields) ELSE KeyFields)

\* s.startsWith(p) of two strings given by their characters
CharPrefix(s, p) == Len(p) <= Len(s) /\ SubSeq(s, 1, Len(p)) = p

\* s.join(' ').startsWith(p.join(' ')): the fields before p's last are equal
\* and p's last field begins the field of s at its place.  Only the fourth
\* field, the en-passant target, is held by its characters.
StartsWith(s, p) ==
    /\ Len(p) <= Len(s)
    /\ \A i \in 1..Len(p) :
          IF i = Len(p) /\ i = KeyFields THEN CharPrefix(s[i], p[i])
          ELSE s[i] = p[i]

convertToMoveObject(uci) ==
    IF Len(uci) < 4 THEN NONE
    ELSE [ from |-> SubSeq(uci, 1, 2), to |-> SubSeq(uci, 3, 4),
           promotion |-> IF Len(uci) > 4 THEN uci[5] ELSE UNDEFINED ]

BookOf(color) == IF color = "white" THEN TAL_OPENINGS.white ELSE TAL_OPENINGS.black

\* the entries of the book that the loop of getOpeningBookMove() would accept
Matching(fen, color) ==
    { i \in 1..Len(BookOf(color)) :
         StartsWith(Slice(fen), Slice(BookOf(color)[i].key)) }

First(S) == CHOOSE i \in S : \A j \in S : i <= j

getOpeningBookMove_firstEntry(fen, color, random) ==
    IF Matching(fen, color) = {} THEN NONE
    ELSE convertToMoveObject(Pick(BookOf(color)[1].moves, random))

\* getOpeningBookMove(fen, color), with the value Math.random() returns
getOpeningBookMove(fen, color, random) ==
    IF Matching(fen, color) = {} THEN NONE
    ELSE convertToMoveObject(
             Pick(BookOf(color)[First(Matching(fen, color))].moves, random))

\* ------------------------------------------------------------- the scorer
\* A move is the verbose move record of the oracle (color, from, to, piece,
\* captured, promotion, san) with, as field replies, the verbose legal moves
\* of the position after it: what a probe copy that has played it reports.
\* A game gives the oracle's answers for the position: fen, turn, moves,
\* history and the kings' squares on the board.
Range(f) == { f[i] : i \in DOMAIN f }

Abs(x) == IF x < 0 THEN -x ELSE x

\* sq.charCodeAt(0) - 'a'.charCodeAt(0)
FileOf(sq) ==
    CASE sq[1] = "a" -> 0 [] sq[1] = "b" -> 1 [] sq[1] = "c" -> 2 [] sq[1] = "d" -> 3
      [] sq[1] = "e" -> 4 [] sq[1] = "f" -> 5 [] sq[1] = "g" -> 6 [] sq[1] = "h" -> 7

\* parseInt(sq[1])
RankOf(sq) ==
    CASE sq[2] = "1" -> 1 [] sq[2] = "2" -> 2 [] sq[2] = "3" -> 3 [] sq[2] = "4" -> 4
      [] sq[2] = "5" -> 5 [] sq[2] = "6" -> 6 [] sq[2] = "7" -> 7 [] sq[2] = "8" -> 8

squareDistance(sq1, sq2) ==
    Abs(FileOf(sq1) - FileOf(sq2)) + Abs((RankOf(sq1) - 1) - (RankOf(sq2) - 1))

\* the probe copy after the move: in_checkmate(), in_check(), moves()
in_checkmate(move) == "#" \in Range(move.san)
in_check(move) == "+" \in Range(move.san) \/ "#" \in Range(move.san)

\* pieceValues[piece] || 0 of calculateTalStyleBonus and evaluateSacrifice
PawnValue(piece) ==
    CASE piece = "p" -> 1 [] piece = "n" -> 3 [] piece = "b" -> 3
      [] piece = "r" -> 5 [] piece = "q" -> 9 [] OTHER -> 0

\* pieceValues[piece] of evaluateMove
pieceValues(piece) ==
    CASE piece = "p" -> 100 [] piece = "n" -> 320 [] piece = "b" -> 330
      [] piece = "r" -> 500 [] piece = "q" -> 900 [] piece = "k" -> 0

EnemyOf(color) == IF color = "w" THEN "b" ELSE "w"

\* findKingSquare(game, color) finds a king
HasKing(game, color) == color \in DOMAIN game.kings

\* the bonus in tenths of a point
\* "Bonus for piece development in opening": a && b || c groups as (a && b) || c
pieceDevelopmentBonus(move, game, d) ==
    LET moveCount == Len(game.history)
    IN IF moveCount < 20
          /\ ((move.piece \in {"n", "b"} /\ move.from[2] = "1") \/ move.from[2] = "8")
       THEN TAL_STYLE_MODIFIERS.pieceActivity * d.talStyleIntensity ELSE 0

calculateTalStyleBonus(move, game, d) ==
    LET intensity == d.talStyleIntensity
        fromRank == RankOf(move.from)
        toRank == RankOf(move.to)
        isWhite == move.color = "w"
        king == game.kings[EnemyOf(move.color)]
        distBefore == squareDistance(move.from, king)
        distAfter == squareDistance(move.to, king)
    IN    (IF move.captured # UNDEFINED /\ PawnValue(move.piece) > PawnValue(move.captured)
           THEN TAL_STYLE_MODIFIERS.sacrifice * intensity ELSE 0)
        + (IF "+" \in Range(move.san)
           THEN TAL_STYLE_MODIFIERS.check * intensity ELSE 0)
        + (IF move.piece = "p" /\ move.to[1] \in {"d", "e"}
           THEN TAL_STYLE_MODIFIERS.centerControl * intensity ELSE 0)
        + pieceDevelopmentBonus(move, game, d)
        + (IF ((isWhite /\ toRank < fromRank) \/ (~isWhite /\ toRank > fromRank))
              /\ move.captured = UNDEFINED
           THEN TAL_STYLE_MODIFIERS.passivePiece * intensity ELSE 0)
        + (IF HasKing(game, EnemyOf(move.color)) /\ distAfter < distBefore
           THEN TAL_STYLE_MODIFIERS.kingAttack * intensity * (distBefore - distAfter)
           ELSE 0)

isComplexPosition(game) ==
    Len(game.moves) > 30 /\ Len(game.history) >= 10 /\ Len(game.history) <= 40

evaluateSacrifice_twoThreats(move, game, d) ==
    LET movingPieceValue == PawnValue(move.piece)
        capturedValue == PawnValue(move.captured)
        materialLoss == movingPieceValue - capturedValue
        attackMoves == SelectSeq(move.replies,
                           LAMBDA m : "+" \in Range(m.san) \/ m.captured # UNDEFINED)
    IN IF movingPieceValue > capturedValue
       THEN   (IF Len(attackMoves) >= 2
               THEN (100 * materialLoss) * d.talStyleIntensity ELSE 0)
            + (IF materialLoss * 10 <= Abs(d.sacrificeThreshold)
               THEN 50 * d.talStyleIntensity ELSE 0)
       ELSE 0

evaluateSacrifice(move, game, d) ==
    LET movingPieceValue == PawnValue(move.piece)
        capturedValue == PawnValue(move.captured)
        materialLoss == movingPieceValue - capturedValue
        attackMoves == SelectSeq(move.replies,
                           LAMBDA m : "+" \in Range(m.san) \/ m.captured # UNDEFINED)
    IN IF movingPieceValue > capturedValue
       THEN   (IF Len(attackMoves) > 2
               THEN (100 * materialLoss) * d.talStyleIntensity ELSE 0)
            + (IF materialLoss * 10 <= Abs(d.sacrificeThreshold)
               THEN 50 * d.talStyleIntensity ELSE 0)
       ELSE 0

evaluateKingAttack(move, game, d) ==
    LET king == game.kings[EnemyOf(game.turn)]
        distBefore == squareDistance(move.from, king)
        distAfter == squareDistance(move.to, king)
    IN IF ~HasKing(game, EnemyOf(game.turn)) THEN 0
       ELSE   (IF distAfter < distBefore
               THEN (distBefore - distAfter) * 20 * d.talStyleIntensity ELSE 0)
            + (IF distAfter <= 3 THEN 30 * d.talStyleIntensity ELSE 0)

\* "Development bonus (moving from back rank)"
developmentBonus(move) ==
    LET isWhite == move.color = "w"
        backRank == IF isWhite THEN "1" ELSE "8"
    IN IF move.from[2] = backRank /\ move.piece # "k" THEN 20 * 10 ELSE 0

evaluatePieceActivity(move, game) ==
          (IF move.to \in { <<"d","4">>, <<"d","5">>, <<"e","4">>, <<"e","5">>,
                            <<"c","4">>, <<"c","5">>, <<"f","4">>, <<"f","5">> }
           THEN 25 * 10 ELSE 0)
        + developmentBonus(move)
        + (IF Len(game.history) < 10
              /\ \E i \in 1..Len(game.history) :
                    game.history[i].from = move.from \/ game.history[i].to = move.from
           THEN -(15 * 10) ELSE 0)

evaluateMove_mateAsThousand(move, game, d) ==
      (IF move.captured # UNDEFINED THEN pieceValues(move.captured) * 15 ELSE 0)
    + calculateTalStyleBonus(move, game, d)
    + (IF in_checkmate(move) THEN 1000 * 10
       ELSE IF in_check(move) THEN TAL_STYLE_MODIFIERS.check * 10 ELSE 0)
    + (IF move.captured # UNDEFINED THEN evaluateSacrifice(move, game, d) ELSE 0)
    + (IF isComplexPosition(game)
       THEN TAL_STYLE_MODIFIERS.complexPosition * d.talStyleIntensity ELSE 0)
    + evaluateKingAttack(move, game, d)
    + evaluatePieceActivity(move, game)

\* the score of a move in tenths of a point
evaluateMove(move, game, d) ==
      (IF move.captured # UNDEFINED THEN pieceValues(move.captured) * 15 ELSE 0)
    + calculateTalStyleBonus(move, game, d)
    + (IF in_checkmate(move) THEN 100000 * 10
       ELSE IF in_check(move) THEN TAL_STYLE_MODIFIERS.check * 10 ELSE 0)
    + (IF move.captured # UNDEFINED THEN evaluateSacrifice(move, game, d) ELSE 0)
    + (IF isComplexPosition(game)
       THEN TAL_STYLE_MODIFIERS.complexPosition * d.talStyleIntensity ELSE 0)
    + evaluateKingAttack(move, game, d)
    + evaluatePieceActivity(move, game)

\* ------------------------------------------------- the positions requested
\* the longest list of legal moves drawn from the candidates
MaxMoves == 3
\* the quiet moves that fill the list of legal moves of a crowded position
Crowd == 24

Mv(color, piece, from, to, captured, promotion, san, replies) ==
    [ color |-> color, piece |-> piece, from |-> from, to |-> to,
      captured |-> captured, promotion |-> promotion, san |-> san,
      replies |-> replies ]

Reply(san, captured) == [ san |-> san, captured |-> captured ]

\* the replies to a quiet move, to a move that leaves two checking or
\* capturing replies, and to one that leaves three
Calm == << Reply(<<"K","h","8">>, UNDEFINED) >>
TwoThreats ==
    << Reply(<<"K","x","d","8">>, "r"), Reply(<<"Q","e","1","+">>, UNDEFINED),
       Reply(<<"h","6">>, UNDEFINED) >>
ThreeThreats ==
    << Reply(<<"g","x","f","6">>, "q"), Reply(<<"Q","x","e","4">>, "p"),
       Reply(<<"R","e","1","+">>, UNDEFINED), Reply(<<"K","h","8">>, UNDEFINED) >>

\* legal moves of White in middlegames with the black king on g8
WhiteCandidates ==
    << Mv("w", "n", <<"f","6">>, <<"d","5">>, UNDEFINED, UNDEFINED, <<"N","d","5","#">>, << >>),
       Mv("w", "q", <<"a","1">>, <<"f","6">>, "r", UNDEFINED, <<"Q","x","f","6","+">>, ThreeThreats),
       Mv("w", "q", <<"h","5">>, <<"h","7">>, "p", UNDEFINED, <<"Q","x","h","7","#">>, << >>),
       Mv("w", "p", <<"e","4">>, <<"e","5">>, UNDEFINED, UNDEFINED, <<"e","5">>, Calm),
       Mv("w", "n", <<"g","1">>, <<"f","3">>, UNDEFINED, UNDEFINED, <<"N","f","3">>, Calm),
       Mv("w", "r", <<"d","1">>, <<"d","8">>, "q", UNDEFINED, <<"R","x","d","8","+">>, TwoThreats),
       Mv("w", "k", <<"e","1">>, <<"e","2">>, UNDEFINED, UNDEFINED, <<"K","e","2">>, Calm),
       Mv("w", "p", <<"e","7">>, <<"e","8">>, UNDEFINED, "q", <<"e","8","=","Q","+">>, TwoThreats),
       Mv("w", "b", <<"c","4">>, <<"f","7">>, "p", UNDEFINED, <<"B","x","f","7","+">>, ThreeThreats) >>

\* legal moves of Black in middlegames with the white king on e1
BlackCandidates ==
    << Mv("b", "q", <<"h","4">>, <<"f","2">>, "p", UNDEFINED, <<"Q","x","f","2","#">>, << >>),
       Mv("b", "n", <<"g","8">>, <<"f","6">>, UNDEFINED, UNDEFINED, <<"N","f","6">>, Calm),
       Mv("b", "r", <<"d","2">>, <<"d","8">>, UNDEFINED, UNDEFINED, <<"R","d","8">>, Calm),
       Mv("b", "r", <<"a","8">>, <<"a","1">>, UNDEFINED, UNDEFINED, <<"R","a","1","+">>, TwoThreats) >>

\* legal moves of White in an exchange of heavy pieces: a pawn takes a queen
\* with and without threats in reply, the queen takes a rook with two
\* threats in reply, a rook moves along the first rank
ExchangeCandidates ==
    << Mv("w", "p", <<"e","4">>, <<"d","5">>, "q", UNDEFINED, <<"e","x","d","5">>, Calm),
       Mv("w", "p", <<"b","4">>, <<"c","5">>, "q", UNDEFINED, <<"b","x","c","5">>, ThreeThreats),
       Mv("w", "q", <<"d","1">>, <<"d","3">>, "r", UNDEFINED, <<"Q","x","d","3">>, TwoThreats),
       Mv("w", "r", <<"h","1">>, <<"f","1">>, UNDEFINED, UNDEFINED, <<"R","f","1">>, Calm) >>

\* the i-th quiet rook move filling a crowded position
Filler(color, i) ==
    LET file == <<"a","b","c","d","e","f","g","h">>[((i - 1) % 8) + 1]
        rank == <<"2","3","4">>[(((i - 1) \div 8) % 3) + 1]
    IN Mv(color, "r", <<file, rank>>, <<file, "6">>, UNDEFINED, UNDEFINED,
          <<"R", file, "6">>, Calm)

\* the subsequences of at most n elements of a sequence
RECURSIVE SubSeqs(_, _)
SubSeqs(seq, n) ==
    IF seq = << >> \/ n = 0 THEN { << >> }
    ELSE SubSeqs(Tail(seq), n)
         \cup { << Head(seq) >> \o s : s \in SubSeqs(Tail(seq), n - 1) }

Ply(from, to) == [ from |-> from, to |-> to ]

\* game.history({verbose: true}) after four plies, one of them to e4, and
\* after 12 and 24 plies of rooks shuffling on the a-file
Histories ==
    { << Ply(<<"e","2">>, <<"e","4">>), Ply(<<"e","7">>, <<"e","5">>),
         Ply(<<"g","1">>, <<"f","3">>), Ply(<<"b","8">>, <<"c","6">>) >>,
      [ i \in 1..12 |-> Ply(<<"a","1">>, <<"a","2">>) ],
      [ i \in 1..24 |-> Ply(<<"a","1">>, <<"a","2">>) ] }

\* where game.board() has the kings
CastledKings == [ w |-> <<"e","1">>, b |-> <<"g","8">> ]
InitialKings == [ w |-> <<"e","1">>, b |-> <<"e","8">> ]

Game(fen, turn, moves, history, kings) ==
    [ fen |-> fen, turn |-> turn, moves |-> moves, history |-> history,
      kings |-> kings ]

\* positions outside the book
WhiteMiddlegame == << "5rk1/4Pp1p/5N2/7Q/2B1P3/8/8/Q2RK1N1", "w", "-", <<"-">>, "0", "30" >>
BlackMiddlegame == << "r5n1/8/8/8/7q/8/3r1P2/4K3", "b", "-", <<"-">>, "0", "30" >>
WhiteExchange == << "6k1/8/8/2qq4/1P2P3/3r4/8/3QK2R", "w", "-", <<"-">>, "0", "30" >>

Middlegames ==
    { Game(WhiteMiddlegame, "w", moves, history, CastledKings) :
         moves \in SubSeqs(WhiteCandidates, MaxMoves), history \in Histories }
    \cup { Game(BlackMiddlegame, "b", moves, history, CastledKings) :
         moves \in SubSeqs(BlackCandidates, MaxMoves), history \in Histories }
    \cup { Game(WhiteExchange, "w", moves, history, CastledKings) :
         moves \in SubSeqs(ExchangeCandidates, MaxMoves), history \in Histories }
    \cup { Game(WhiteMiddlegame, "w",
                WhiteCandidates \o [ i \in 1..Crowd |-> Filler("w", i) ], history,
                CastledKings) :
         history \in Histories }

\* a quiet move of the opening
Quiet(color, piece, from, to, san) ==
    Mv(color, piece, from, to, UNDEFINED, UNDEFINED, san, Calm)

\* The positions of the opening, as game.fen() serialises them: the fourth
\* field names the square behind a pawn that has just advanced two squares,
\* and is "-" after any other move.
StartPosition ==
    Game(<< "rnbqkbnr/pppppppp/8/8/8/8/PPPPPPPP/RNBQKBNR", "w", "KQkq", <<"-">>, "0", "1" >>,
         "w",
         << Quiet("w", "p", <<"e","2">>, <<"e","4">>, <<"e","4">>),
            Quiet("w", "p", <<"d","2">>, <<"d","4">>, <<"d","4">>),
            Quiet("w", "n", <<"g","1">>, <<"f","3">>, <<"N","f","3">>) >>,
         << >>, InitialKings)

\* after 1.e4
AfterE4 ==
    Game(<< "rnbqkbnr/pppppppp/8/8/4P3/8/PPPP1PPP/RNBQKBNR", "b", "KQkq", <<"e","3">>, "0", "1" >>,
         "b",
         << Quiet("b", "p", <<"e","7">>, <<"e","5">>, <<"e","5">>),
            Quiet("b", "p", <<"c","7">>, <<"c","5">>, <<"c","5">>),
            Quiet("b", "n", <<"g","8">>, <<"f","6">>, <<"N","f","6">>) >>,
         << Ply(<<"e","2">>, <<"e","4">>) >>, InitialKings)

\* after 1.e4 c5 2.Nf3
AfterE4C5Nf3 ==
    Game(<< "rnbqkbnr/pp1ppppp/8/2p5/4P3/5N2/PPPP1PPP/RNBQKB1R", "b", "KQkq", <<"-">>, "1", "2" >>,
         "b",
         << Quiet("b", "n", <<"b","8">>, <<"c","6">>, <<"N","c","6">>),
            Quiet("b", "p", <<"d","7">>, <<"d","6">>, <<"d","6">>) >>,
         << Ply(<<"e","2">>, <<"e","4">>), Ply(<<"c","7">>, <<"c","5">>),
            Ply(<<"g","1">>, <<"f","3">>) >>, InitialKings)

\* after 1.c4 e5 2.Nc3
AfterC4E5Nc3 ==
    Game(<< "rnbqkbnr/pppp1ppp/8/4p3/2P5/2N5/PP1PPPPP/R1BQKBNR", "b", "KQkq", <<"-">>, "1", "2" >>,
         "b",
         << Quiet("b", "p", <<"d","7">>, <<"d","6">>, <<"d","6">>),
            Quiet("b", "n", <<"g","8">>, <<"f","6">>, <<"N","f","6">>),
            Quiet("b", "n", <<"b","8">>, <<"c","6">>, <<"N","c","6">>) >>,
         << Ply(<<"c","2">>, <<"c","4">>), Ply(<<"e","7">>, <<"e","5">>),
            Ply(<<"b","1">>, <<"c","3">>) >>, InitialKings)

\* after 1.d4 Nf6 2.c4
AfterD4Nf6C4 ==
    Game(<< "rnbqkb1r/pppppppp/5n2/8/2PP4/8/PP2PPPP/RNBQKBNR", "b", "KQkq", <<"c","3">>, "0", "2" >>,
         "b",
         << Quiet("b", "p", <<"e","7">>, <<"e","6">>, <<"e","6">>),
            Quiet("b", "p", <<"g","7">>, <<"g","6">>, <<"g","6">>),
            Quiet("b", "p", <<"c","7">>, <<"c","5">>, <<"c","5">>) >>,
         << Ply(<<"d","2">>, <<"d","4">>), Ply(<<"g","8">>, <<"f","6">>),
            Ply(<<"c","2">>, <<"c","4">>) >>, InitialKings)

\* the same placement after 1.c4 Nf6 2.d4 Ng8 3.Nf3 Nf6 4.Ng1
AfterKnightsReturn ==
    Game(<< "rnbqkb1r/pppppppp/5n2/8/2PP4/8/PP2PPPP/RNBQKBNR", "b", "KQkq", <<"-">>, "4", "4" >>,
         "b",
         << Quiet("b", "p", <<"e","7">>, <<"e","6">>, <<"e","6">>),
            Quiet("b", "p", <<"g","7">>, <<"g","6">>, <<"g","6">>),
            Quiet("b", "p", <<"c","7">>, <<"c","5">>, <<"c","5">>) >>,
         << Ply(<<"c","2">>, <<"c","4">>), Ply(<<"g","8">>, <<"f","6">>),
            Ply(<<"d","2">>, <<"d","4">>), Ply(<<"f","6">>, <<"g","8">>),
            Ply(<<"g","1">>, <<"f","3">>), Ply(<<"g","8">>, <<"f","6">>),
            Ply(<<"f","3">>, <<"g","1">>) >>, InitialKings)

Openings ==
    { StartPosition, AfterE4, AfterE4C5Nf3, AfterC4E5Nc3, AfterD4Nf6C4,
      AfterKnightsReturn }

Games == Openings \cup Middlegames

\* -------------------------------------------------------------- TalEngine
IsNone(x) == "none" \in DOMAIN x

TalColor(playerColor) == IF playerColor = "w" THEN "black" ELSE "white"

\* { from, to, promotion } of a verbose move
Descriptor(move) ==
    [ from |-> move.from, to |-> move.to, promotion |-> move.promotion ]

getRandomMove_backwards(moves, random) ==
    [ from |-> Pick(moves, random).to, to |-> Pick(moves, random).from,
      promotion |-> Pick(moves, random).promotion ]

getRandomMove(moves, random) == Descriptor(Pick(moves, random))

scoredMoves_materialOnly(moves, game, d) ==
    [ i \in 1..Len(moves) |->
         [ move |-> moves[i],
           score |-> IF moves[i].captured # UNDEFINED
                     THEN pieceValues(moves[i].captured) * 15 ELSE 0 ] ]

\* game.move(move): the side to move changes and the move joins the history
playMove(game, move) ==
    [game EXCEPT !.turn = EnemyOf(@),
                 !.history = Append(@, Ply(move.from, move.to)),
                 !.moves = move.replies]

afterEvaluateMove_playsOnGame(move, game) == playMove(game, move)

\* the game passed in after evaluateMove(move, game): the move is played on
\* tempGame = new Chess(game.fen()), in evaluateMove and in evaluateSacrifice,
\* and game is only read
afterEvaluateMove(move, game) == game

\* the copies evaluateMove(move, game) makes: its own, and the one of
\* evaluateSacrifice for a capture by the more valuable piece
probesOf(move) ==
    1 + (IF move.captured # UNDEFINED /\ PawnValue(move.piece) > PawnValue(move.captured)
         THEN 1 ELSE 0)

\* the game passed in after moves.map(...), and the copies made
RECURSIVE afterScoring(_, _)
afterScoring(moves, game) ==
    IF moves = << >> THEN game
    ELSE afterScoring(Tail(moves), afterEvaluateMove(Head(moves), game))

RECURSIVE probesOfAll(_)
probesOfAll(moves) ==
    IF moves = << >> THEN 0 ELSE probesOf(Head(moves)) + probesOfAll(Tail(moves))

\* moves.map(move => ({ move, score: evaluateMove(move, game) }))
scoredMoves(moves, game, d) ==
    [ i \in 1..Len(moves) |->
         [ move |-> moves[i], score |-> evaluateMove(moves[i], game, d) ] ]

\* list.sort((a, b) => b.score - a.score): descending by score, equal scores
\* in their order in the list
RECURSIVE SortByScore(_)
SortByScore(list) ==
    IF Len(list) = 0 THEN << >>
    ELSE LET sorted == SortByScore(SubSeq(list, 1, Len(list) - 1))
             last == list[Len(list)]
             ahead == Cardinality({ i \in 1..Len(sorted) : sorted[i].score >= last.score })
         IN SubSeq(sorted, 1, ahead) \o << last >> \o SubSeq(sorted, ahead + 1, Len(sorted))

PoolSize_floor(d) ==
    LET floor == (60 - 3 * d.talStyleIntensity) \div 20
    IN IF floor < 1 THEN 1 ELSE floor

\* Math.max(1, Math.ceil(3 * (1 - talStyleIntensity * 0.5))): with the
\* intensity in tenths, the ceiling of (60 - 3 * intensity) / 20
PoolSize(d) ==
    LET ceil == ((60 - 3 * d.talStyleIntensity) + 19) \div 20
    IN IF ceil < 1 THEN 1 ELSE ceil

\* scoredMoves sorted, then slice(0, PoolSize)
topMoves(moves, game, d) ==
    LET sorted == SortByScore(scoredMoves(moves, game, d))
    IN SubSeq(sorted, 1, IF PoolSize(d) < Len(sorted) THEN PoolSize(d) ELSE Len(sorted))

\* setDifficulty(level), with a level that is no key of DIFFICULTY_LEVELS too
SetDifficulty ==
    \E level \in DOMAIN DIFFICULTY_LEVELS \cup {"grandmaster"} :
        /\ difficulty' = getDifficulty(level)
        /\ UNCHANGED << isThinking, request, pc, result, obs >>
        /\ UNCHANGED << vars, app >>

\* getBestMove(game, playerColor) up to its first await: the book lookup, and
\* without a book move calculateBestMove() up to its await.  simulateThinking()
\* has then handed a timeout to the host; pc tells which await is pending.
\* The caller (makeTalMove, part_001:299-308) asks on Tal's turn only: the
\* player's colour is the one that is not to move.
GetBestMove ==
    /\ pc = "idle"
    /\ \E game \in Games, random \in Draws :
          LET playerColor == EnemyOf(game.turn)
              talColor == TalColor(playerColor)
              fen == game.fen
              bookMove == getOpeningBookMove(fen, talColor, random)
              moves == game.moves
              call == [ game |-> game, playerColor |-> playerColor, bookMove |-> bookMove,
                        moves |-> moves ]
          IN IF ~IsNone(bookMove)
             THEN /\ request' = [call EXCEPT !.moves = << >>]
                  /\ isThinking' = TRUE
                  /\ pc' = "book"
                  /\ result' = NONE
                  /\ obs' = [NoObs EXCEPT !.entry = First(Matching(fen, talColor))]
             ELSE IF Len(moves) = 0
             THEN /\ request' = call
                  /\ isThinking' = FALSE
                  /\ pc' = "done"
                  /\ result' = NONE
                  /\ obs' = [NoObs EXCEPT !.path = "none"]
             ELSE /\ request' = call
                  /\ isThinking' = TRUE
                  /\ pc' = "calc"
                  /\ result' = NONE
                  /\ obs' = NoObs
    /\ UNCHANGED difficulty
    /\ UNCHANGED << vars, app >>

\* the delay of the book path has elapsed: getBestMove() returns bookMove
BookThinkingDone ==
    /\ pc = "book"
    /\ isThinking' = FALSE
    /\ result' = request.bookMove
    /\ pc' = "done"
    /\ obs' = [obs EXCEPT !.path = "book", !.delays = @ + 1]
    /\ UNCHANGED << difficulty, request >>
    /\ UNCHANGED << vars, app >>

\* the delay of calculateBestMove() has elapsed: the mistake draw, then a
\* random legal move or a move of the scored pool; getBestMove() returns it
CalcThinkingDone ==
    /\ pc = "calc"
    /\ LET pool == topMoves(request.moves, request.game, difficulty)
       IN \E mistake \in Draws, random \in Draws :
          IF shouldMakeMistake(difficulty, mistake)
          THEN /\ result' = getRandomMove(request.moves, random)
               /\ obs' = [obs EXCEPT !.path = "mistake", !.delays = @ + 1,
                                     !.mistakeDraws = @ + 1, !.profile = difficulty]
               /\ request' = request
          ELSE /\ result' = Descriptor(Pick(pool, random).move)
               /\ obs' = [obs EXCEPT !.path = "scored", !.delays = @ + 1,
                                     !.mistakeDraws = @ + 1, !.profile = difficulty,
                                     !.evaluated = Len(request.moves),
                                     !.probes = probesOfAll(request.moves)]
               /\ request' = [request EXCEPT
                                 !.game = afterScoring(request.moves, request.game)]
    /\ isThinking' = FALSE
    /\ pc' = "done"
    /\ UNCHANGED difficulty
    /\ UNCHANGED << vars, app >>

\* the caller has taken the value getBestMove() returned
TakeResult ==
    /\ pc = "done"
    /\ pc' = "idle"
    /\ request' = NONE
    /\ result' = NONE
    /\ obs' = NoObs
    /\ UNCHANGED << difficulty, isThinking >>
    /\ UNCHANGED << vars, app >>

NextEngine ==
    \/ SetDifficulty
    \/ GetBestMove
    \/ BookThinkingDone
    \/ CalcThinkingDone
    \/ TakeResult

SpecEngine == Init /\ [][NextEngine]_<< vars, engineVars >>

\* ---------------------------------------------------------------------------
\* The page (part_001).  Every handler runs to completion; makeTalMove() is
\* suspended once, at its await of getBestMove().  The board is left out; the
\* rules of chess are the oracle that says whether a move is accepted, what it
\* captures and whether it ends the game.  app holds the globals of the page,
\* the makeTalMove() timers the host holds, the getBestMove() calls awaited,
\* and, for the properties, the plies applied since the game began and the
\* calls of the last handler in their order.

\* plies applied in one game
MaxPlies == 4
\* makeTalMove() timers pending and getBestMove() calls awaited, together
MaxCalls == 2

\* what the buttons of the selection screen are used for here: a level other
\* than the one preselected, either colour, the preselected preset and one
\* with an increment
Levels == { "legend" }
Colors == { "white", "black" }
TimeKeys == { "rapid", "classical" }
\* what a move may capture
Capturable == { UNDEFINED, "p" }

\* new Chess()
NewChess == [ plies |-> << >> ]
Played(color, captured, ends) == [ color |-> color, captured |-> captured, ends |-> ends ]
Last(s) == s[Len(s)]
Front(s) == SubSeq(s, 1, Len(s) - 1)
\* game.turn(), game.game_over()
turn(g) == IF Len(g.plies) % 2 = 0 THEN "w" ELSE "b"
game_over(g) == g.plies # << >> /\ Last(g.plies).ends
ColorCode(color) == IF color = "white" THEN "w" ELSE "b"

\* page and clock after a handler
W(a, t) == [ a |-> a, t |-> t ]
\* the handler calls e
Call(a, e) == [a EXCEPT !.trace = Append(@, e)]
\* the position changes under the calls awaited: their moves were found for
\* the colour to move until now
Outdated(a) ==
    IF a.calls.fresh = 0 THEN a
    ELSE [a EXCEPT !.calls = [ fresh |-> 0,
                               w |-> @.w + (IF turn(a.game) = "w" THEN @.fresh ELSE 0),
                               b |-> @.b + (IF turn(a.game) = "b" THEN @.fresh ELSE 0) ]]
Awaited(a) == a.calls.fresh + a.calls.w + a.calls.b
Count(s, e) == Cardinality({ i \in 1..Len(s) : s[i] = e })

\* the callback given to setTimeoutCallback
onTimeout(a, loser) ==
    IF a.isGameOver THEN a ELSE [a EXCEPT !.isGameOver = TRUE, !.modal = TRUE]

\* game.move(...) accepted, by the hand or by Tal
gameMove(a, m) ==
    Call([Outdated(a) EXCEPT !.game.plies = Append(@, m), !.applied = @ + 1], "move")

\* the last lines of startGame() and resetGame()
firstMove(a, t) ==
    IF a.playerColor = "black"
    THEN W(Call([a EXCEPT !.timers = @ + 1], "timer"), start(t, "opponent"))
    ELSE W(a, start(t, "player"))

startGame(a, t) ==
    firstMove([Outdated(a) EXCEPT !.phase = "game", !.game = NewChess,
                                  !.moveHistory = << >>, !.capturedByTal = << >>,
                                  !.capturedByPlayer = << >>, !.isGameOver = FALSE,
                                  !.gameStarted = TRUE, !.applied = 0, !.trace = << >>],
              [init(t, a.currentTimeControl) EXCEPT !.timeoutCalls = << >>])

resetGame(a, t) ==
    firstMove([Outdated(a) EXCEPT !.game = NewChess,
                                  !.moveHistory = << >>, !.capturedByTal = << >>,
                                  !.capturedByPlayer = << >>, !.isGameOver = FALSE,
                                  !.applied = 0, !.trace = << >>],
              [reset(t) EXCEPT !.timeoutCalls = << >>])

showDifficultySelection(a) ==
    [a EXCEPT !.phase = "menu", !.gameStarted = FALSE, !.isGameOver = FALSE]

onDragStart(a) ==
    /\ ~( game_over(a.game) \/ a.isGameOver )
    /\ turn(a.game) = ColorCode(a.playerColor)

\* onDrop() that switches the clock before it knows the move is legal
onDrop_switchFirst(a, t, legal, captured, ends) ==
    LET m == Played(turn(a.game), captured, ends)
        t1 == switchTimer(t)
        a0 == Call([a EXCEPT !.trace = << >>, !.dragging = FALSE], "switch")
        a1 == gameMove(a0, m)
        a2 == IF captured # UNDEFINED
              THEN [a1 EXCEPT !.capturedByPlayer = Append(@, captured)] ELSE a1
        a3 == [a2 EXCEPT !.moveHistory = Append(@, m)]
    IN IF ~legal THEN W(Call(a0, "snapback"), t1)
       ELSE IF game_over(a3.game)
            THEN W([a3 EXCEPT !.isGameOver = TRUE, !.modal = TRUE], pause(t1))
            ELSE W(Call([a3 EXCEPT !.timers = @ + 1], "timer"), t1)

onDrop(a, t, legal, captured, ends) ==
    LET m == Played(turn(a.game), captured, ends)
        a0 == [a EXCEPT !.trace = << >>, !.dragging = FALSE]
        a1 == gameMove(a0, m)
        a2 == IF captured # UNDEFINED
              THEN [a1 EXCEPT !.capturedByPlayer = Append(@, captured)] ELSE a1
        t1 == switchTimer(t)
        a3 == [Call(a2, "switch") EXCEPT !.moveHistory = Append(@, m)]
    IN IF ~legal THEN W(Call(a0, "snapback"), t)
       ELSE IF game_over(a3.game)
            THEN W([a3 EXCEPT !.isGameOver = TRUE, !.modal = TRUE], pause(t1))
            ELSE W(Call([a3 EXCEPT !.timers = @ + 1], "timer"), t1)

\* makeTalMove() up to its await: TRUE when getBestMove() is called
makeTalMove_asks(a) ==
    /\ ~( game_over(a.game) \/ a.isGameOver )
    /\ turn(a.game) = (IF a.playerColor = "white" THEN "b" ELSE "w")

makeTalMove(a) ==
    LET a0 == [a EXCEPT !.trace = << >>, !.timers = @ - 1]
    IN IF makeTalMove_asks(a)
       THEN Call([a0 EXCEPT !.calls.fresh = @ + 1], "getBestMove")
       ELSE a0

\* makeTalMove() after its await, for the awaited call of the given kind: the
\* move found is legal where it was found; elsewhere the oracle decides
afterGetBestMove(a, t, kind, legal, captured, ends) ==
    LET m == Played(turn(a.game), captured, ends)
        a0 == [a EXCEPT !.trace = << >>, !.calls[kind] = @ - 1]
        a1 == gameMove(a0, m)
        a2 == IF captured # UNDEFINED
              THEN [a1 EXCEPT !.capturedByTal = Append(@, captured)] ELSE a1
        t1 == switchTimer(t)
        a3 == [Call(a2, "switch") EXCEPT !.moveHistory = Append(@, m)]
    IN IF ~( kind = "fresh" \/ legal ) THEN W(a0, t)
       ELSE IF game_over(a3.game)
            THEN W([a3 EXCEPT !.isGameOver = TRUE, !.modal = TRUE], pause(t1))
            ELSE W(a3, t1)

\* undoMove() that takes back the last ply only
undoMove_singlePly(a) ==
    LET a0 == [a EXCEPT !.trace = << >>]
        n == Len(a.game.plies)
        talMove == IF n >= 1 THEN a.game.plies[n] ELSE NONE
        pop(s) == IF s = << >> THEN s ELSE Front(s)
        taken(m) == ~IsNone(m) /\ m.captured # UNDEFINED
    IN IF Len(a.moveHistory) < 2 THEN a0
       ELSE [Outdated(a0) EXCEPT
               !.game.plies = IF n >= 1 THEN SubSeq(@, 1, n - 1) ELSE << >>,
               !.capturedByTal = IF taken(talMove) THEN pop(@) ELSE @,
               !.moveHistory = Front(@)]

undoMove(a) ==
    LET a0 == [a EXCEPT !.trace = << >>]
        n == Len(a.game.plies)
        talMove == IF n >= 1 THEN a.game.plies[n] ELSE NONE
        playerMove == IF n >= 2 THEN a.game.plies[n - 1] ELSE NONE
        pop(s) == IF s = << >> THEN s ELSE Front(s)
        taken(m) == ~IsNone(m) /\ m.captured # UNDEFINED
    IN IF Len(a.moveHistory) < 2 THEN a0
       ELSE [Outdated(a0) EXCEPT
               !.game.plies = IF n >= 2 THEN SubSeq(@, 1, n - 2) ELSE << >>,
               !.capturedByTal = IF taken(talMove) THEN pop(@) ELSE @,
               !.capturedByPlayer = IF taken(playerMove) THEN pop(@) ELSE @,
               !.moveHistory = Front(Front(@))]

\* what a handler leaves of the engine's call, and on the clock's counters
Page(r) ==
    /\ app' = r.a
    /\ Clock(r.t)
    /\ UNCHANGED << request, pc, result, obs >>

Counted(r) ==
    /\ nSwitch' = nSwitch + Count(r.a.trace, "switch")
    /\ UNCHANGED << initialized, nTicks >>

\* what the rules allow of the next move: nothing is taken before the third
\* ply and no game ends before the fourth; a refused move does neither
Possible(g, legal, captured, ends) ==
    /\ captured # UNDEFINED => ( legal /\ Len(g.plies) >= 2 )
    /\ ends => ( legal /\ Len(g.plies) >= 3 )

\* init(): setupTimerCallbacks()
Load ==
    /\ app.phase = "load"
    /\ Page(W([app EXCEPT !.phase = "menu"], setTimeoutCallback(TM, "callback")))
    /\ UNCHANGED << counters, difficulty, isThinking >>

Choose ==
    /\ app.phase = "menu"
    /\ \E level \in Levels, color \in Colors, key \in TimeKeys :
          Page(W([app EXCEPT !.currentDifficulty = level, !.playerColor = color,
                             !.currentTimeControl = key], TM))
    /\ UNCHANGED << counters, difficulty, isThinking >>

StartGame ==
    /\ app.phase = "menu"
    /\ app.playerColor = "black" => app.timers + Awaited(app) < MaxCalls
    /\ Page(startGame(app, TM))
    /\ difficulty' = getDifficulty(app.currentDifficulty)
    /\ initialized' = TRUE
    /\ nTicks' = 0
    /\ nSwitch' = 0
    /\ UNCHANGED isThinking

\* the buttons are not clicked while a piece is held
NewGameButton ==
    /\ app.phase = "game"
    /\ ~app.dragging
    /\ Page(W(showDifficultySelection([app EXCEPT !.trace = << >>]), pause(TM)))
    /\ UNCHANGED << counters, difficulty, isThinking >>

PlayAgainButton ==
    /\ app.phase = "game"
    /\ ~app.dragging
    /\ app.modal
    /\ app.playerColor = "black" => app.timers + Awaited(app) < MaxCalls
    /\ Page(resetGame([app EXCEPT !.modal = FALSE], TM))
    /\ nTicks' = 0
    /\ nSwitch' = 0
    /\ UNCHANGED << initialized, difficulty, isThinking >>

ChangeDifficultyButton ==
    /\ app.phase = "game"
    /\ ~app.dragging
    /\ app.modal
    /\ Page(W(showDifficultySelection([app EXCEPT !.modal = FALSE, !.trace = << >>]),
              pause(TM)))
    /\ UNCHANGED << counters, difficulty, isThinking >>

DragStart ==
    /\ app.phase = "game"
    /\ ~app.dragging
    /\ onDragStart(app)
    /\ Page(W([app EXCEPT !.dragging = TRUE, !.trace = << >>], TM))
    /\ UNCHANGED << counters, difficulty, isThinking >>

\* the piece picked up is let go: it is of the player's colour, so the oracle
\* accepts no move of it unless that colour is to move
Drop ==
    /\ app.dragging
    /\ app.applied < MaxPlies
    /\ \E legal \in BOOLEAN, captured \in Capturable, ends \in BOOLEAN :
          /\ legal => /\ turn(app.game) = ColorCode(app.playerColor)
                      /\ ~game_over(app.game)
          /\ ( legal /\ ~ends ) => app.timers + Awaited(app) < MaxCalls
          /\ Possible(app.game, legal, captured, ends)
          /\ LET r == onDrop(app, TM, legal, captured, ends)
             IN Page(r) /\ Counted(r)
    /\ UNCHANGED << difficulty, isThinking >>

\* a makeTalMove() timer fires
MakeTalMove ==
    /\ app.timers > 0
    /\ app.applied < MaxPlies
    /\ Page(W(makeTalMove(app), TM))
    /\ isThinking' = IF makeTalMove_asks(app) THEN TRUE ELSE isThinking
    /\ UNCHANGED << counters, difficulty >>

\* a getBestMove() call awaited returns its move.  In a position other than
\* the one it was found in the oracle decides, but a move found for one colour
\* is refused while the other is to move: within MaxPlies plies no piece
\* stands on a square the other side's pieces can have moved from
AfterGetBestMove ==
    /\ app.applied < MaxPlies
    /\ \E kind \in { "fresh", "w", "b" }, legal \in BOOLEAN,
          captured \in Capturable, ends \in BOOLEAN :
          /\ app.calls[kind] > 0
          /\ ( kind = "fresh" ) => legal
          /\ ( kind # "fresh" /\ legal ) => turn(app.game) = kind
          /\ Possible(app.game, legal, captured, ends)
          /\ LET r == afterGetBestMove(app, TM, kind, legal, captured, ends)
             IN Page(r) /\ Counted(r)
    /\ isThinking' = FALSE
    /\ UNCHANGED difficulty

UndoButton ==
    /\ app.phase = "game"
    /\ ~app.dragging
    /\ Page(W(undoMove(app), TM))
    /\ UNCHANGED << counters, difficulty, isThinking >>

\* the scheduled interval fires until the active side has no time left; the
\* clock then calls the page's callback
RunOut ==
    /\ intervalId # NULL
    /\ LET t == ticks(TM, getTime(TM, activeTimer))
       IN Page(W(IF Len(t.timeoutCalls) > Len(timeoutCalls)
                 THEN onTimeout([app EXCEPT !.trace = << >>], Last(t.timeoutCalls))
                 ELSE [app EXCEPT !.trace = << >>], t))
    /\ UNCHANGED << counters, difficulty, isThinking >>

NextApp ==
    \/ Load
    \/ Choose
    \/ StartGame
    \/ NewGameButton
    \/ PlayAgainButton
    \/ ChangeDifficultyButton
    \/ DragStart
    \/ Drop
    \/ MakeTalMove
    \/ AfterGetBestMove
    \/ UndoButton
    \/ RunOut

SpecApp == Init /\ [][NextApp]_<< vars, engineVars, app >>

\* ------------------------------------------------- claims about the engine
\* the book entry the request in flight or finished has matched
MatchedEntry ==
    BookOf(TalColor(request.playerColor))[
        First(Matching(request.game.fen, TalColor(request.playerColor)))]

\* C13: whenever the position of a request matches a book entry with a
\* non-empty move list, getBestMove returns a move of that entry's list, not
\* before the thinking delay has elapsed, and neither evaluateMove nor the
\* mistake draw is invoked for the request.
C13_BookPath ==
    ( /\ pc # "idle"
      /\ Matching(request.game.fen, TalColor(request.playerColor)) # {}
      /\ Len(MatchedEntry.moves) > 0 ) =>
        /\ pc \in {"book", "done"}
        /\ obs.evaluated = 0
        /\ obs.mistakeDraws = 0
        /\ pc = "book" => IsNone(result) /\ isThinking /\ obs.delays = 0
        /\ pc = "done" =>
              /\ obs.path = "book"
              /\ obs.delays = 1
              /\ \E i \in 1..Len(MatchedEntry.moves) :
                    result = convertToMoveObject(MatchedEntry.moves[i])

\* after 1.c4 e5 2.Nc3 the book has answered b8-c6, the second move listed
C13_Witness ==
    /\ pc = "done"
    /\ request.game = AfterC4E5Nc3
    /\ obs.path = "book"
    /\ obs.delays = 1
    /\ obs.evaluated = 0
    /\ result = [ from |-> <<"b","8">>, to |-> <<"c","6">>, promotion |-> UNDEFINED ]

\* C14: getBestMove returns none exactly when the oracle reports no legal
\* move; with a legal move it returns a move descriptor, which on the mistake
\* path and on the scoring path is one of the oracle's legal moves.
C14_NoneIffNoLegalMove ==
    pc = "done" =>
        /\ IsNone(result) <=> Len(request.game.moves) = 0
        /\ obs.path \in {"mistake", "scored"} =>
              \E i \in 1..Len(request.game.moves) :
                  result = Descriptor(request.game.moves[i])

\* a request in a position without legal moves has returned none at once
C14_Witness ==
    /\ pc = "done"
    /\ request.game.fen = BlackMiddlegame
    /\ Len(request.game.moves) = 0
    /\ IsNone(result)
    /\ obs.path = "none"
    /\ obs.delays = 0
    /\ ~isThinking

\* the pool the finished request has drawn its move from
Pool == topMoves(request.moves, request.game, obs.profile)

\* C15: with mistakeRate = 0 (legend) no value of the random draw takes the
\* mistake path: a request that got past the book is answered from the
\* scored top pool.
C15_LegendNeverMistakes ==
    /\ \A random \in Draws : ~shouldMakeMistake(DIFFICULTY_LEVELS.legend, random)
    /\ ( pc = "done" /\ obs.mistakeDraws > 0 /\ obs.profile.mistakeRate = 0 ) =>
           /\ obs.path = "scored"
           /\ \E i \in 1..Len(Pool) : result = Descriptor(Pool[i].move)

\* a legend request outside the book has drawn once and has been answered by
\* the scorer
C15_Witness ==
    /\ pc = "done"
    /\ obs.profile = DIFFICULTY_LEVELS.legend
    /\ obs.mistakeDraws = 1
    /\ obs.path = "scored"
    /\ obs.evaluated = 3
    /\ ~IsNone(result)

\* the legal moves of the finished request that score higher than its i-th
Higher(i) ==
    { j \in 1..Len(request.moves) :
         evaluateMove(request.moves[j], request.game, obs.profile)
           > evaluateMove(request.moves[i], request.game, obs.profile) }

\* C16: on the scoring path the move returned is one of the k highest-scored
\* legal moves, k = ceil(3 * (1 - 0.5 * intensity)), at most the number of
\* legal moves and at least 1; k is 3 for beginner, intermediate and advanced
\* and 2 for master and legend.
C16_TopPool ==
    /\ PoolSize(DIFFICULTY_LEVELS.beginner) = 3
    /\ PoolSize(DIFFICULTY_LEVELS.intermediate) = 3
    /\ PoolSize(DIFFICULTY_LEVELS.advanced) = 3
    /\ PoolSize(DIFFICULTY_LEVELS.master) = 2
    /\ PoolSize(DIFFICULTY_LEVELS.legend) = 2
    /\ ( pc = "done" /\ obs.path = "scored" ) =>
          LET k == IF obs.profile.talStyleIntensity <= 6 THEN 3 ELSE 2
          IN /\ Len(Pool) >= 1
             /\ Len(Pool) = IF k < Len(request.moves) THEN k ELSE Len(request.moves)
             /\ \E i \in 1..Len(request.moves) :
                   /\ result = Descriptor(request.moves[i])
                   /\ Cardinality(Higher(i)) < k

\* a master request in a position with more than 30 legal moves has been
\* answered with the move that has exactly one higher-scored rival
C16_Witness ==
    /\ pc = "done"
    /\ obs.path = "scored"
    /\ obs.profile = DIFFICULTY_LEVELS.master
    /\ Len(request.moves) > 30
    /\ Len(Pool) = 2
    /\ \E i \in 1..Len(request.moves) :
          result = Descriptor(request.moves[i]) /\ Cardinality(Higher(i)) = 1

Profiles == { DIFFICULTY_LEVELS[level] : level \in DOMAIN DIFFICULTY_LEVELS }

\* the legal moves of the request that mate, and those that do not
Mates == { i \in 1..Len(request.moves) : in_checkmate(request.moves[i]) }
NonMates == (1..Len(request.moves)) \ Mates

\* score(m) - score(n), in tenths of a point
Margin(m, n, d) ==
    evaluateMove(request.moves[m], request.game, d)
      - evaluateMove(request.moves[n], request.game, d)

\* C17 as claimed: a legal move that mates scores at least 100000 points
\* more than a legal move of the same position that does not mate, under
\* every profile.
C17_MateMarginAtLeast100000 ==
    pc \in {"calc", "done"} =>
        \A d \in Profiles : \A m \in Mates : \A n \in NonMates :
            Margin(m, n, d) >= 100000 * 10

\* C17 amended: a legal move that mates scores higher than every legal move
\* of the same position that does not mate, under every profile.
C17_MateOutscores ==
    pc \in {"calc", "done"} =>
        \A d \in Profiles : \A m \in Mates : \A n \in NonMates :
            Margin(m, n, d) > 0

\* the scorer has answered with the quiet mate Nd5#, which under legend
\* scores less than 100000 points more than the checking capture Qxf6+
C17_Witness ==
    /\ pc = "done"
    /\ obs.path = "scored"
    /\ Len(request.moves) = 2
    /\ request.moves[1] = WhiteCandidates[1]
    /\ request.moves[2] = WhiteCandidates[2]
    /\ result = Descriptor(WhiteCandidates[1])
    /\ Margin(1, 2, DIFFICULTY_LEVELS.legend) > 0
    /\ Margin(1, 2, DIFFICULTY_LEVELS.legend) < 100000 * 10

\* the legal moves of the request in the order calculateBestMove() sorts them
Ranking(d) == SortByScore(scoredMoves(request.moves, request.game, d))

\* C18: in the descending-score ranking of the legal moves every move that
\* mates stands ahead of every move that does not, under every profile.
C18_MatesRankedFirst ==
    pc \in {"calc", "done"} =>
        \A d \in Profiles :
            LET ranking == Ranking(d)
            IN \A p, q \in 1..Len(ranking) :
                  ( in_checkmate(ranking[p].move) /\ ~in_checkmate(ranking[q].move) )
                      => p < q

\* of the legal moves Qxf6+, Qxh7# in this order the ranking has the mate
\* first, and the scorer has answered with it
C18_Witness ==
    /\ pc = "done"
    /\ obs.path = "scored"
    /\ request.moves = << WhiteCandidates[2], WhiteCandidates[3] >>
    /\ Ranking(obs.profile)[1].move = WhiteCandidates[3]
    /\ Ranking(obs.profile)[2].move = WhiteCandidates[2]
    /\ result = Descriptor(WhiteCandidates[3])

\* the entries of the book of Tal's colour as the source declares them
Declared == IF TalColor(request.playerColor) = "white" THEN Declared_white ELSE Declared_black

\* the declared entries whose key the position of the request matches
DeclaredMatching ==
    { i \in 1..Len(Declared) : StartsWith(Slice(request.game.fen), Slice(Declared[i].key)) }

\* C19: when several declared entries match the position, the book move is
\* taken from the move list of the earliest-declared one.
C19_EarliestDeclaredEntryUsed ==
    ( pc \in {"book", "done"} /\ obs.entry > 0 ) =>
        \E i \in 1..Len(Declared[First(DeclaredMatching)].moves) :
            request.bookMove =
                convertToMoveObject(Declared[First(DeclaredMatching)].moves[i])

\* C20: a request for Black in the position after 1.e4, as game.fen()
\* serialises it, takes the book path and returns { from: 'c7', to: 'c5' }.
C20_AfterE4BookAnswersC5 ==
    ( pc # "idle" /\ request.game = AfterE4 /\ request.playerColor = "w" ) =>
        /\ pc \in {"book", "done"}
        /\ pc = "done" =>
              /\ obs.path = "book"
              /\ result = [ from |-> <<"c","7">>, to |-> <<"c","5">>,
                            promotion |-> UNDEFINED ]

\* C21: the book match of a position depends on its piece placement, side to
\* move and castling rights only: a position that agrees with the requested
\* one on these three fields obtains the same match.
C21_LookupIgnoresEnPassant ==
    pc # "idle" =>
        \A other \in Openings :
            SubSeq(other.fen, 1, 3) = SubSeq(request.game.fen, 1, 3) =>
                Matching(other.fen, TalColor(request.playerColor))
                  = Matching(request.game.fen, TalColor(request.playerColor))

\* names that are no tier
OtherNames == { "grandmaster", "", "Legend", "constructor", "toString", "__proto__" }

\* C22: getDifficulty returns the tier's profile for each of the five tier
\* names and the intermediate profile for every other name.
C22_ResolveFallsBack ==
    /\ \A level \in DOMAIN DIFFICULTY_LEVELS :
          getDifficulty(level) = DIFFICULTY_LEVELS[level]
    /\ \A level \in OtherNames :
          getDifficulty(level) = DIFFICULTY_LEVELS.intermediate
    /\ difficulty \in Profiles

Threats(move) ==
    { i \in 1..Len(move.replies) :
         "+" \in Range(move.replies[i].san) \/ move.replies[i].captured # UNDEFINED }

\* the captures among the legal moves of the request
Captures == { i \in 1..Len(request.moves) : request.moves[i].captured # UNDEFINED }

\* C26: for a capture, the sacrifice evaluation holds the continuation bonus
\* 100 x material deficit x intensity exactly when the moving piece is worth
\* more than the captured one and more than two replies check or capture;
\* the rest of it is the threshold bonus 50 x intensity or nothing; a pawn
\* taking a queen gets neither.
C26_ContinuationBonus ==
    pc # "idle" =>
        \A i \in Captures : \A d \in Profiles :
            LET move == request.moves[i]
                deficit == PawnValue(move.piece) - PawnValue(move.captured)
                bonus == evaluateSacrifice(move, request.game, d)
                continuation == 100 * deficit * d.talStyleIntensity
            IN /\ ( deficit > 0 /\ Cardinality(Threats(move)) > 2 )
                    => bonus \in { continuation, continuation + 50 * d.talStyleIntensity }
               /\ ~( deficit > 0 /\ Cardinality(Threats(move)) > 2 )
                    => bonus \in { 0, 50 * d.talStyleIntensity }
               /\ ( move.piece = "p" /\ move.captured = "q" ) => bonus = 0

\* scored: a pawn takes the queen with no threat in reply, and the queen
\* takes a rook with two threats in reply
C26_Witness ==
    /\ pc = "done"
    /\ obs.path = "scored"
    /\ request.moves = << ExchangeCandidates[1], ExchangeCandidates[3] >>
    /\ Threats(request.moves[1]) = { }
    /\ Cardinality(Threats(request.moves[2])) = 2
    /\ evaluateSacrifice(request.moves[1], request.game, obs.profile) = 0

\* C27: the flat development bonus of 20 goes to a move exactly when the
\* moving piece is no king, starts on its own back rank and ends on another
\* rank.
C27_DevelopmentOffBackRank ==
    pc # "idle" =>
        \A i \in 1..Len(request.moves) :
            LET move == request.moves[i]
                backRank == IF move.color = "w" THEN "1" ELSE "8"
            IN developmentBonus(move) = 20 * 10
                 <=> ( move.piece # "k" /\ move.from[2] = backRank /\ move.to[2] # backRank )

\* C29: the piece-development bonus 40 x intensity goes only to a knight or
\* bishop that starts on rank 1 or rank 8 while fewer than 20 plies have been
\* played.
C29_OnlyMinorPiecesDevelop ==
    pc # "idle" =>
        \A i \in 1..Len(request.moves) : \A d \in Profiles :
            LET move == request.moves[i]
            IN pieceDevelopmentBonus(move, request.game, d) # 0 =>
                 /\ move.piece \in { "n", "b" }
                 /\ move.from[2] \in { "1", "8" }
                 /\ Len(request.game.history) < 20

\* C28: when the scoring path answers a request whose legal moves include a
\* checkmate, the move returned is a checkmate, whatever the profile.
C28_CheckmateAlwaysTaken ==
    ( pc = "done" /\ obs.path = "scored" /\ Mates # { } ) =>
        \E i \in Mates : result = Descriptor(request.moves[i])

\* C30: while no side is active (after init or reset, before a start),
\* resume() changes nothing: the clock is and stays paused, no tick is
\* scheduled, and both remaining times are as they were.
C30_ResumeWithoutSideIsNoOp ==
    activeTimer = NULL =>
        /\ resume(TM) = TM
        /\ resume(TM).isPaused
        /\ resume(TM).intervalId = NULL
        /\ resume(TM).scheduled = 0
        /\ resume(TM).playerTime = playerTime
        /\ resume(TM).opponentTime = opponentTime

\* an initialised clock under a finite preset with no active side, on which
\* resume() has no effect
C30_Witness ==
    /\ initialized
    /\ activeTimer = NULL
    /\ currentTimeControl = "blitz"
    /\ playerTime = Control("blitz").time
    /\ isPaused
    /\ resume(TM) = TM

\* C24: when the clock has run out while makeTalMove() awaits getBestMove(),
\* the move that call returns is dropped: the game stays as it is and
\* switchTimer() is not called.
C24_TimeoutDiscardsMove ==
    [][ ( /\ app.isGameOver
          /\ timeoutCalls # << >>
          /\ app.calls.fresh > 0
          /\ Awaited(app') < Awaited(app) )
        => ( app'.game = app.game /\ nSwitch' = nSwitch ) ]_<< vars, engineVars, app >>

\* C25: switchTimer() is called once for every ply applied to the game, by
\* the hand or by Tal, right after the move and before a computation for the
\* other side is asked for, and not at all when the move is refused.
C25_SwitchOncePerPly ==
    /\ nSwitch = app.applied
    /\ \A i \in 1..Len(app.trace) :
          /\ app.trace[i] = "move" => ( i < Len(app.trace) /\ app.trace[i + 1] = "switch" )
          /\ app.trace[i] = "switch" =>
                /\ i > 1
                /\ app.trace[i - 1] = "move"
                /\ \A j \in 1..i : app.trace[j] \notin { "timer", "getBestMove", "snapback" }
    /\ Count(app.trace, "switch") <= 1

\* the player's ply and Tal's answer have been applied, the answer last
C25_Witness ==
    /\ app.applied = 2
    /\ Len(app.game.plies) = 2
    /\ nSwitch = 2
    /\ app.trace = << "move", "switch" >>
    /\ Awaited(app) = 0
    /\ ~isThinking

\* C31: in a timed game, from startGame() or resetGame() on, after every
\* handler the clock's active side is the player exactly when the player's
\* colour is to move, whatever the order of drops, Tal's moves, undo and the
\* clock running out.
C31_ActiveSideIsSideToMove ==
    ( app.phase = "game" /\ currentTimeControl # "unlimited" ) =>
        ( activeTimer = "player" <=> turn(app.game) = ColorCode(app.playerColor) )

\* the player, white, has taken back two plies while Tal was thinking: one
\* ply is left, Tal is to move and Tal's clock is the active one
C31_Witness ==
    /\ app.phase = "game"
    /\ app.playerColor = "white"
    /\ app.applied = 3
    /\ Len(app.game.plies) = 1
    /\ app.calls.b = 1
    /\ activeTimer = "opponent"
    /\ turn(app.game) = "b"

\* C32: whenever makeTalMove() applies a move, the side to move just before
\* is Tal's colour in the game as it is then, also after an undo or a new
\* game with another colour while the move was being computed.
C32_TalMovesOwnColour ==
    [][ ( /\ app.phase = "game"
          /\ Awaited(app') < Awaited(app)
          /\ app'.applied = app.applied + 1 )
        => turn(app.game) = (IF app.playerColor = "white" THEN "b" ELSE "w")
      ]_<< vars, engineVars, app >>

\* what the plies of one colour have captured, in their order
RECURSIVE CapturesBy(_, _)
CapturesBy(plies, color) ==
    IF plies = << >> THEN << >>
    ELSE (IF Head(plies).color = color /\ Head(plies).captured # UNDEFINED
          THEN << Head(plies).captured >> ELSE << >>)
         \o CapturesBy(Tail(plies), color)

\* C33: undoMove(), on the player's turn or while Tal is thinking, takes
\* back the last two plies, one of each side, and leaves in capturedByTal the
\* pieces taken by Tal's remaining moves and in capturedByPlayer those taken
\* by the player's remaining moves; with fewer than two plies it changes
\* nothing.
C33_UndoKeepsCaptureLists ==
    ( app.phase = "game" /\ ~app.dragging ) =>
        LET u == undoMove(app)
            n == Len(app.game.plies)
            mine == ColorCode(app.playerColor)
        IN /\ n < 2 =>
                /\ u.game = app.game
                /\ u.moveHistory = app.moveHistory
                /\ u.capturedByTal = app.capturedByTal
                /\ u.capturedByPlayer = app.capturedByPlayer
           /\ n >= 2 =>
                /\ u.game.plies = SubSeq(app.game.plies, 1, n - 2)
                /\ app.game.plies[n].color # app.game.plies[n - 1].color
                /\ u.capturedByPlayer = CapturesBy(u.game.plies, mine)
                /\ u.capturedByTal = CapturesBy(u.game.plies, EnemyOf(mine))

\* C34: after any sequence of init, start, pause, resume, switchTimer, tick
\* and reset calls at most one tick interval is scheduled, and none while the
\* clock is paused; so one cadence period takes at most one tick from a
\* side's time.
C34_AtMostOneInterval ==
    /\ scheduled <= 1
    /\ isPaused => scheduled = 0
    /\ scheduled = 0 <=> intervalId = NULL
    /\ \A side \in Sides :
          getTime(TM, side) - getTime(ticks(TM, scheduled), side) <= TickStep

\* a clock that has been started, switched and ticked runs on one interval
C34_Witness ==
    /\ initialized
    /\ ~isPaused
    /\ scheduled = 1
    /\ nSwitch >= 1
    /\ nTicks >= 1
    /\ getTime(TM, activeTimer) - getTime(ticks(TM, scheduled), activeTimer) = TickStep

\* C35: a side whose time a timeout has set to 0 keeps 0 until the next
\* init() or reset(), whatever the clock is asked to do in between and
\* whatever move the page applies late.
C35_ExpiredStaysZero ==
    \A side \in Sides :
        side \in Range(timeoutCalls) => getTime(TM, side) = 0

====
